---- MODULE Spec2Model ----
\* Batch matching and settlement engine of the 2-Aside funding service:
\* requests, match pairs, wallets, merge cycles and the deadline sweep.
\* Time is counted in minutes since the midnight at which the model starts.
EXTENDS Integers, Sequences, FiniteSets, TLC

VARIABLES
    now,          \* datetime.utcnow(), in minutes
    wallets,      \* wallets table: wallet id -> balance, total_deposited, is_blocked,
                  \* has_payout (bank_details_id or wallet_address is set)
    admin_wallets,\* admin_wallets table (funding_pool rows): currency -> balance
    funding,      \* funding_requests table: sequence indexed by request id
    withdrawal,   \* withdrawal_requests table: sequence indexed by request id
    pairs,        \* funding_match_pairs table: sequence indexed by pair id
    cycles,       \* merge_cycles table: sequence indexed by cycle id
    miss_applied, \* history: per pair, how often the proof-deadline-miss branch re-queued its withdrawal
    admin_calls,  \* history: number of admin endpoint calls made so far
    workers,      \* run_merge_cycle tasks sent so far: position and session-local rows of each
    sessions,     \* API handlers in flight: the rows each one read, until its db.commit()
    mf,           \* smart_match_requests input: funders as <<id, amount_remaining>>
    mw,           \* smart_match_requests input: withdrawers as <<id, amount_remaining>>
    mout          \* result of the last call under study: NULL before the call, then
                  \* {list of <<funder id, withdrawer id, amount>> triples} for
                  \* smart_match_requests, {response} for a create endpoint

vars == <<now, wallets, admin_wallets, funding, withdrawal, pairs, cycles,
          miss_applied, admin_calls, workers, sessions, mf, mw, mout>>

----------------------------------------------------------------------------
\* Bounds of the model

MaxHours == 5
MaxFunding == 2
MaxWithdrawal == 2
MaxPairs == 2
MaxUnits == 2
MaxMissApplied == 2
MaxAdminCalls == 1
InitBalanceUnits == 2
MaxMatchLen == 3
MaxWorkers == 2
MaxSessions == 2
MaxRemaining == 3

\* Program constants

Hour == 60
MIN_AMOUNT == 1000
MAX_AMOUNT == 10000000
PROOF_DEADLINE_HOURS == 4
CONFIRMATION_DEADLINE_HOURS == 4
EXTENSION_HOURS == 1
CUTOFF_MINUTES == 10

Currencies == <<"NAIRA", "USDT">>

Users == {"u1", "u2", "u3"}
Admins == {"admin"}

\* wallets rows that may exist: every wallet belongs to one user and one currency
WalletIds == 1..4
WalletUser(w) == IF w = 1 THEN "u1" ELSE IF w = 2 THEN "u2" ELSE IF w = 3 THEN "u3" ELSE "u1"
WalletCurrency(w) == IF w = 4 THEN "USDT" ELSE "NAIRA"
NairaWallets == {w \in WalletIds : WalletCurrency(w) = "NAIRA"}

\* A nullable DateTime column is the empty set (NULL) or a singleton {t}
NULL == {}
At(t) == {t}

Min(a, b) == IF a <= b THEN a ELSE b

Range(s) == {s[i] : i \in DOMAIN s}

\* amounts a caller may send, in multiples of MIN_AMOUNT
Amounts == {k * MIN_AMOUNT : k \in 1..MaxUnits}

----------------------------------------------------------------------------
\* smart_match_requests (celery_batch_matching.py)

\* sorted(xs, key=lambda x: x.amount_remaining): stable, ascending
RECURSIVE InsertSorted(_, _)
InsertSorted(x, s) ==
    IF s = <<>> THEN <<x>>
    ELSE IF Head(s)[2] <= x[2] THEN <<Head(s)>> \o InsertSorted(x, Tail(s))
    ELSE <<x>> \o s

RECURSIVE SortedByRemaining(_)
SortedByRemaining(s) ==
    IF s = <<>> THEN <<>>
    ELSE InsertSorted(s[Len(s)], SortedByRemaining(SubSeq(s, 1, Len(s) - 1)))

\* a match of one unit per iteration
MatchAmount_OneUnit(funder_remaining, withdrawer_remaining) ==
    1

\* a match that always takes the funder's whole remainder
MatchAmount_FunderRemaining(funder_remaining, withdrawer_remaining) ==
    funder_remaining

\* match_amount = min(funder_remaining, withdrawer_remaining)
MatchAmount(funder_remaining, withdrawer_remaining) ==
    Min(funder_remaining, withdrawer_remaining)

\* the while loop: two cursors i, j over the sorted mutable lists
RECURSIVE MatchLoop(_, _, _, _, _)
MatchLoop(funders, withdrawers, i, j, matches) ==
    IF ~(i <= Len(funders) /\ j <= Len(withdrawers)) THEN matches
    ELSE LET match_amount == MatchAmount(funders[i][2], withdrawers[j][2])
             f2 == [funders EXCEPT ![i][2] = @ - match_amount]
             w2 == [withdrawers EXCEPT ![j][2] = @ - match_amount]
             i2 == IF f2[i][2] = 0 THEN i + 1 ELSE i
             j2 == IF w2[j][2] = 0 THEN j + 1 ELSE j
         IN MatchLoop(f2, w2, i2, j2,
                      Append(matches, <<funders[i][1], withdrawers[j][1], match_amount>>))

smart_match_requests(funding_requests, withdrawal_requests) ==
    MatchLoop(SortedByRemaining(funding_requests),
              SortedByRemaining(withdrawal_requests), 1, 1, <<>>)

----------------------------------------------------------------------------
\* Rows

NewRequest(wallet_id, amount, t) ==
    [wallet_id |-> wallet_id, amount |-> amount, amount_remaining |-> amount,
     is_fully_matched |-> FALSE, is_completed |-> FALSE,
     requested_at |-> t, has_matched_at |-> FALSE, failed_match_count |-> 0,
     deleted |-> FALSE]

\* db.query(<table>).filter(<table>.id == id).first() finds a row
\* (deleted: db.delete(row) was committed; ids are never reused)
RowExists(table, id) == id \in DOMAIN table /\ ~table[id].deleted

\* FundingMatchPair(...) as run_merge_cycle and run_matching build it
NewPair(funding_id, withdrawal_id, amount, proof_deadline) ==
    [funding_request_id |-> funding_id, withdrawal_request_id |-> withdrawal_id,
     amount |-> amount, proof_uploaded |-> FALSE, proof_confirmed |-> FALSE,
     proof_deadline |-> proof_deadline, confirmation_deadline |-> NULL,
     extension_requested |-> FALSE, extension_granted |-> FALSE,
     extended_deadline |-> NULL,
     funder_missed_deadline |-> FALSE, withdrawer_missed_deadline |-> FALSE]

\* has_pending_request(user_id, db)["has_any_pending"]
has_pending_request(user_id) ==
    \/ \E f \in DOMAIN funding :
          /\ WalletUser(funding[f].wallet_id) = user_id
          /\ ~funding[f].is_completed
          /\ ~funding[f].deleted
    \/ \E w \in DOMAIN withdrawal :
          /\ WalletUser(withdrawal[w].wallet_id) = user_id
          /\ ~withdrawal[w].is_completed
          /\ ~withdrawal[w].deleted

\* the checks create_funding_request and create_withdrawal_request share
CreateAccepted(user_id, wallet_id, amount) ==
    /\ amount >= MIN_AMOUNT
    /\ amount <= MAX_AMOUNT
    /\ ~has_pending_request(user_id)
    /\ wallet_id \in DOMAIN wallets
    /\ WalletUser(wallet_id) = user_id
    /\ ~wallets[wallet_id].is_blocked
    /\ wallets[wallet_id].has_payout

----------------------------------------------------------------------------
\* Persisting the triples of one currency batch (the "Create match pairs" loop)

\* funding.amount_remaining -= amount, and the full-match flags when it hits zero
\* (has_matched_at: whether the matched_at column holds a time; only that is ever read)
Decrement(req, amount) ==
    LET r == req.amount_remaining - amount
    IN IF r = 0
       THEN [req EXCEPT !.amount_remaining = r, !.is_fully_matched = TRUE,
                        !.has_matched_at = TRUE]
       ELSE [req EXCEPT !.amount_remaining = r]

RECURSIVE ApplyMatches(_, _, _)
ApplyMatches(db, matches, t) ==
    IF matches = <<>> THEN db
    ELSE LET m == Head(matches)
             pair == NewPair(m[1], m[2], m[3], At(t + PROOF_DEADLINE_HOURS * Hour))
         IN ApplyMatches(
                [funding |-> [db.funding EXCEPT ![m[1]] = Decrement(@, m[3])],
                 withdrawal |-> [db.withdrawal EXCEPT ![m[2]] = Decrement(@, m[3])],
                 pairs |-> Append(db.pairs, pair)],
                Tail(matches), t)

\* the rows a currency batch query returns, as <<id, amount_remaining>> in id order
RECURSIVE SelectRows(_, _, _, _)
SelectRows(table, currency, cutoff, i) ==
    IF i > Len(table) THEN <<>>
    ELSE LET r == table[i]
             hit == /\ ~r.deleted
                    /\ WalletCurrency(r.wallet_id) = currency
                    /\ ~r.is_fully_matched
                    /\ ~r.is_completed
                    /\ \A c \in cutoff : r.requested_at < c
         IN (IF hit THEN <<(<<i, r.amount_remaining>>)>> ELSE <<>>)
            \o SelectRows(table, currency, cutoff, i + 1)

\* run_matching: one currency of the loop (no cutoff filter: cutoff = NULL)
MatchCurrencyAuto(db, currency, t) ==
    LET funding_requests == SelectRows(db.funding, currency, NULL, 1)
        withdrawal_requests == SelectRows(db.withdrawal, currency, NULL, 1)
    IN IF funding_requests = <<>> \/ withdrawal_requests = <<>> THEN db
       ELSE ApplyMatches(db, smart_match_requests(funding_requests, withdrawal_requests), t)

RECURSIVE MatchAllAuto(_, _, _)
MatchAllAuto(db, k, t) ==
    IF k > Len(Currencies) THEN db
    ELSE MatchAllAuto(MatchCurrencyAuto(db, Currencies[k], t), k + 1, t)

----------------------------------------------------------------------------
\* Initial state: the database after init_batch_matching / create_daily_merge_cycles
\* have run at midnight, with registered users holding a balance and no requests.

\* scheduled times of the day in UTC minutes: 9:00, 15:00, 21:00 WAT (UTC+1)
MergeTimesUTC == <<8 * Hour, 14 * Hour, 20 * Hour>>

NewCycle(scheduled_time) ==
    [scheduled_time |-> scheduled_time, cutoff_time |-> scheduled_time - CUTOFF_MINUTES,
     status |-> "pending", total_funding_requests |-> 0, total_withdrawal_requests |-> 0,
     matched_pairs |-> 0, unmatched_funding |-> 0, unmatched_withdrawal |-> 0]

InitWallets(ids) ==
    [w \in ids |-> [balance |-> InitBalanceUnits * MIN_AMOUNT,
                          total_deposited |-> InitBalanceUnits * MIN_AMOUNT,
                          is_blocked |-> FALSE,
                          has_payout |-> TRUE]]

InitAdminWallets == [c \in Range(Currencies) |-> [balance |-> 0]]

NoWorkers == <<>>

InitCommon ==
    /\ admin_wallets = InitAdminWallets
    /\ funding = <<>>
    /\ withdrawal = <<>>
    /\ pairs = <<>>
    /\ miss_applied = <<>>
    /\ admin_calls = 0
    /\ workers = NoWorkers
    /\ sessions = <<>>
    /\ mf = <<>>
    /\ mw = <<>>
    /\ mout = NULL

\* all sequences over S of length 0..n
RECURSIVE SeqsUpTo(_, _)
SeqsUpTo(S, n) ==
    IF n = 0 THEN {<<>>}
    ELSE LET shorter == SeqsUpTo(S, n - 1)
         IN shorter \cup {Append(s, x) : s \in shorter, x \in S}

\* Open requests as create_funding_request / create_withdrawal_request leave them
\* at midnight: each user holds at most one, funders on the first wallets,
\* with at least one request on each side
Populations ==
    {pop \in [f : SeqsUpTo(Amounts, MaxFunding), w : SeqsUpTo(Amounts, MaxWithdrawal)] :
        /\ pop.f # <<>>
        /\ pop.w # <<>>
        /\ Len(pop.f) + Len(pop.w) <= Cardinality(NairaWallets)}

StartOfDay == MergeTimesUTC[1]

InitCycles == <<NewCycle(MergeTimesUTC[1]), NewCycle(MergeTimesUTC[2])>>

\* The settlement system starts at the first merge instant of the day
Init ==
    /\ now = StartOfDay
    /\ wallets = InitWallets(NairaWallets)
    /\ admin_wallets = InitAdminWallets
    /\ cycles = InitCycles
    /\ \E pop \in Populations :
          /\ funding = [i \in 1..Len(pop.f) |-> NewRequest(i, pop.f[i], 0)]
          /\ withdrawal = [j \in 1..Len(pop.w) |->
                              NewRequest(Len(pop.f) + j, pop.w[j], 0)]
    /\ pairs = <<>>
    /\ miss_applied = <<>>
    /\ admin_calls = 0
    /\ workers = NoWorkers
    /\ sessions = <<>>
    /\ mf = <<>>
    /\ mw = <<>>
    /\ mout = NULL

\* the empty ledger: no request has been created yet
InitLedger ==
    /\ InitCommon
    /\ now = StartOfDay
    /\ wallets = InitWallets(WalletIds)
    /\ cycles = InitCycles

\* miss_applied follows the pairs table: a new pair starts at 0
Extend(ma, n) == [i \in 1..n |-> IF i <= Len(ma) THEN ma[i] ELSE 0]

Unrelated == UNCHANGED <<workers, sessions, mf, mw, mout>>

NoAdminCall == UNCHANGED admin_calls

\* an admin endpoint was called
AdminCall ==
    /\ admin_calls < MaxAdminCalls
    /\ admin_calls' = admin_calls + 1

----------------------------------------------------------------------------
\* Request creation (main.py)

create_funding_request(user_id, wallet_id, amount) ==
    /\ CreateAccepted(user_id, wallet_id, amount)
    /\ Len(funding) < MaxFunding
    /\ funding' = Append(funding, NewRequest(wallet_id, amount, now))
    /\ NoAdminCall
    /\ UNCHANGED <<now, wallets, admin_wallets, withdrawal, pairs, cycles, miss_applied>>
    /\ Unrelated

create_withdrawal_request(user_id, wallet_id, amount) ==
    /\ CreateAccepted(user_id, wallet_id, amount)
    /\ wallets[wallet_id].balance >= amount
    /\ Len(withdrawal) < MaxWithdrawal
    /\ withdrawal' = Append(withdrawal, NewRequest(wallet_id, amount, now))
    /\ NoAdminCall
    /\ UNCHANGED <<now, wallets, admin_wallets, funding, pairs, cycles, miss_applied>>
    /\ Unrelated

\* the cron triggers of start_scheduler: 9:00, 15:00, 21:00 WAT
IsMergeTime(t) == t \in Range(MergeTimesUTC)

\* run_matching (auto_matcher.py), the body of the APScheduler job.
\* Its own MergeCycle row is created and completed inside the one transaction.
RunMatching ==
    LET db == MatchAllAuto([funding |-> funding, withdrawal |-> withdrawal,
                            pairs |-> pairs], 1, now)
    IN /\ Len(db.pairs) <= MaxPairs
       /\ funding' = db.funding
       /\ withdrawal' = db.withdrawal
       /\ pairs' = db.pairs
       /\ miss_applied' = Extend(miss_applied, Len(db.pairs))
       /\ UNCHANGED <<now, wallets, admin_wallets, cycles>>
       /\ Unrelated

\* the scheduled job
run_matching ==
    /\ IsMergeTime(now)
    /\ RunMatching
    /\ NoAdminCall

\* demo_trigger_merge (main.py): an admin runs run_matching at any time
demo_trigger_merge(admin) ==
    /\ admin \in Admins
    /\ RunMatching
    /\ AdminCall

\* the clock
Tick ==
    /\ now + Hour <= StartOfDay + MaxHours * Hour
    /\ now' = now + Hour
    /\ NoAdminCall
    /\ UNCHANGED <<wallets, admin_wallets, funding, withdrawal, pairs, cycles, miss_applied>>
    /\ Unrelated

----------------------------------------------------------------------------
\* Settlement of a pair (main.py)

\* "pair.proof_deadline and now > pair.proof_deadline"
ProofDeadlinePassed(pair, t) == \E d \in pair.proof_deadline : t > d

\* "pair.confirmation_deadline and now > pair.confirmation_deadline"
ConfirmationDeadlinePassed(pair, t) == \E d \in pair.confirmation_deadline : t > d

\* the funder asking to upload: 404 / 403 / "Proof already uploaded" checks
UploadReaches(pair_id, user_id) ==
    /\ pair_id \in DOMAIN pairs
    /\ RowExists(funding, pairs[pair_id].funding_request_id)
    /\ WalletUser(funding[pairs[pair_id].funding_request_id].wallet_id) = user_id
    /\ ~pairs[pair_id].proof_uploaded

\* upload_proof, the branch taken after the proof deadline: block the funder,
\* re-queue the withdrawal request, flag the pair, commit, then answer 400
RequeueWithdrawal(wreq, amount) ==
    [wreq EXCEPT !.failed_match_count = @ + 1,
                 !.is_fully_matched = FALSE,
                 !.has_matched_at = FALSE,
                 !.amount_remaining = @ + amount]

upload_proof_late(pair_id, user_id) ==
    LET pair == pairs[pair_id]
        wallet_id == funding[pair.funding_request_id].wallet_id
        wid == pair.withdrawal_request_id
    IN /\ UploadReaches(pair_id, user_id)
       /\ ProofDeadlinePassed(pair, now)
       /\ miss_applied[pair_id] < MaxMissApplied
       /\ wallets' = [wallets EXCEPT ![wallet_id].is_blocked = TRUE]
       /\ IF RowExists(withdrawal, wid)
          THEN /\ withdrawal' = [withdrawal EXCEPT ![wid] = RequeueWithdrawal(@, pair.amount)]
               /\ miss_applied' = [miss_applied EXCEPT ![pair_id] = @ + 1]
          ELSE UNCHANGED <<withdrawal, miss_applied>>
       /\ pairs' = [pairs EXCEPT ![pair_id].funder_missed_deadline = TRUE]
       /\ NoAdminCall
       /\ UNCHANGED <<now, admin_wallets, funding, cycles>>
       /\ Unrelated

\* upload_proof, the accepting branch (a file of an allowed type)
upload_proof(pair_id, user_id) ==
    LET pair == pairs[pair_id]
    IN /\ UploadReaches(pair_id, user_id)
       /\ ~ProofDeadlinePassed(pair, now)
       /\ pairs' = [pairs EXCEPT ![pair_id].proof_uploaded = TRUE,
                                 ![pair_id].confirmation_deadline =
                                     At(now + CONFIRMATION_DEADLINE_HOURS * Hour)]
       /\ NoAdminCall
       /\ UNCHANGED <<now, wallets, admin_wallets, funding, withdrawal, cycles, miss_applied>>
       /\ Unrelated

\* the same checks without "Proof not uploaded yet"
ConfirmAccepted_NoUploadCheck(pair_id, user_id) ==
    /\ pair_id \in DOMAIN pairs
    /\ RowExists(withdrawal, pairs[pair_id].withdrawal_request_id)
    /\ WalletUser(withdrawal[pairs[pair_id].withdrawal_request_id].wallet_id) = user_id
    /\ ~pairs[pair_id].proof_confirmed
    /\ ~ConfirmationDeadlinePassed(pairs[pair_id], now)

\* the withdrawer asking to confirm: the checks before "Confirm proof and update balances"
ConfirmAccepted(pair_id, user_id) ==
    /\ pair_id \in DOMAIN pairs
    /\ RowExists(withdrawal, pairs[pair_id].withdrawal_request_id)
    /\ WalletUser(withdrawal[pairs[pair_id].withdrawal_request_id].wallet_id) = user_id
    /\ pairs[pair_id].proof_uploaded
    /\ ~pairs[pair_id].proof_confirmed
    /\ ~ConfirmationDeadlinePassed(pairs[pair_id], now)

\* a completion test that does not look at the other pairs of the request
AllConfirmed_Ignored(ps, field, id) ==
    TRUE

\* all(p.proof_confirmed for p in <pairs of the request>)
AllConfirmed(ps, field, id) ==
    \A i \in DOMAIN ps : ps[i][field] = id => ps[i].proof_confirmed

confirm_proof(pair_id, user_id) ==
    LET pair == pairs[pair_id]
        fid == pair.funding_request_id
        wid == pair.withdrawal_request_id
        funder_wallet == funding[fid].wallet_id
        withdrawer_wallet == withdrawal[wid].wallet_id
        credited == [wallets EXCEPT ![funder_wallet].balance = @ + pair.amount,
                                    ![funder_wallet].total_deposited = @ + pair.amount]
        debited == [credited EXCEPT ![withdrawer_wallet].balance = @ - pair.amount]
        ps == [pairs EXCEPT ![pair_id].proof_confirmed = TRUE]
    IN /\ ConfirmAccepted(pair_id, user_id)
       /\ RowExists(funding, fid)
       /\ pairs' = ps
       /\ wallets' = debited
       /\ funding' = IF AllConfirmed(ps, "funding_request_id", fid)
                     THEN [funding EXCEPT ![fid].is_completed = TRUE] ELSE funding
       /\ withdrawal' = IF AllConfirmed(ps, "withdrawal_request_id", wid)
                        THEN [withdrawal EXCEPT ![wid].is_completed = TRUE] ELSE withdrawal
       /\ NoAdminCall
       /\ UNCHANGED <<now, admin_wallets, cycles, miss_applied>>
       /\ Unrelated

\* request_extension without "Cannot request extension after uploading proof"
request_extension_AfterUpload(pair_id, user_id) ==
    LET pair == pairs[pair_id]
    IN /\ pair_id \in DOMAIN pairs
       /\ RowExists(funding, pair.funding_request_id)
       /\ WalletUser(funding[pair.funding_request_id].wallet_id) = user_id
       /\ ~pair.extension_requested
       /\ ~ProofDeadlinePassed(pair, now)
       /\ pair.proof_deadline # NULL
       /\ pairs' = [pairs EXCEPT ![pair_id].extension_requested = TRUE,
                                 ![pair_id].extension_granted = TRUE,
                                 ![pair_id].extended_deadline =
                                     {d + EXTENSION_HOURS * Hour : d \in pair.proof_deadline}]
       /\ NoAdminCall
       /\ UNCHANGED <<now, wallets, admin_wallets, funding, withdrawal, cycles, miss_applied>>
       /\ Unrelated

request_extension(pair_id, user_id) ==
    LET pair == pairs[pair_id]
    IN /\ pair_id \in DOMAIN pairs
       /\ RowExists(funding, pair.funding_request_id)
       /\ WalletUser(funding[pair.funding_request_id].wallet_id) = user_id
       /\ ~pair.extension_requested
       /\ ~pair.proof_uploaded
       /\ ~ProofDeadlinePassed(pair, now)
       /\ pair.proof_deadline # NULL
       /\ pairs' = [pairs EXCEPT ![pair_id].extension_requested = TRUE,
                                 ![pair_id].extension_granted = TRUE,
                                 ![pair_id].extended_deadline =
                                     {d + EXTENSION_HOURS * Hour : d \in pair.proof_deadline}]
       /\ NoAdminCall
       /\ UNCHANGED <<now, wallets, admin_wallets, funding, withdrawal, cycles, miss_applied>>
       /\ Unrelated

----------------------------------------------------------------------------
\* check_expired_deadlines (celery_batch_matching.py): the one-minute sweep

\* first query: proof_deadline <= now, no proof, not yet flagged
ExpiredProof(pair, t) ==
    /\ \E d \in pair.proof_deadline : d <= t
    /\ ~pair.proof_uploaded
    /\ ~pair.funder_missed_deadline

\* second query: confirmation_deadline <= now, proof uploaded, not confirmed, not yet flagged
ExpiredConfirmation(pair, t) ==
    /\ \E d \in pair.confirmation_deadline : d <= t
    /\ pair.proof_uploaded
    /\ ~pair.proof_confirmed
    /\ ~pair.withdrawer_missed_deadline

\* a sweep that leaves the row of the first query unflagged
FlagFunder_NoFlag(pair) == pair

\* what the sweep does to one row of the first query
FlagFunder(pair) == [pair EXCEPT !.funder_missed_deadline = TRUE]

\* what the sweep does to one row of the second query
FlagWithdrawer(pair) == [pair EXCEPT !.withdrawer_missed_deadline = TRUE]

check_expired_deadlines ==
    LET expired_proof_pairs == {i \in DOMAIN pairs : ExpiredProof(pairs[i], now)}
        ps1 == [i \in DOMAIN pairs |->
                   IF i \in expired_proof_pairs THEN FlagFunder(pairs[i]) ELSE pairs[i]]
        funder_wallets == {funding[pairs[i].funding_request_id].wallet_id :
                              i \in {k \in expired_proof_pairs :
                                        RowExists(funding, pairs[k].funding_request_id)}}
        expired_confirmation_pairs == {i \in DOMAIN ps1 : ExpiredConfirmation(ps1[i], now)}
        ps2 == [i \in DOMAIN ps1 |->
                   IF i \in expired_confirmation_pairs THEN FlagWithdrawer(ps1[i]) ELSE ps1[i]]
        withdrawer_wallets == {withdrawal[pairs[i].withdrawal_request_id].wallet_id :
                                  i \in {k \in expired_confirmation_pairs :
                                            RowExists(withdrawal, pairs[k].withdrawal_request_id)}}
    IN /\ pairs' = ps2
       /\ wallets' = [w \in DOMAIN wallets |->
                         IF w \in funder_wallets \cup withdrawer_wallets
                         THEN [wallets[w] EXCEPT !.is_blocked = TRUE] ELSE wallets[w]]
       /\ NoAdminCall
       /\ UNCHANGED <<now, admin_wallets, funding, withdrawal, cycles, miss_applied>>
       /\ Unrelated

----------------------------------------------------------------------------
\* Admin endpoints (main.py)

\* get_next_merge_cycle: the earliest pending cycle scheduled after now, if any
NextCycles ==
    {c \in DOMAIN cycles :
        /\ cycles[c].scheduled_time > now
        /\ cycles[c].status = "pending"
        /\ \A d \in DOMAIN cycles :
              (cycles[d].scheduled_time > now /\ cycles[d].status = "pending")
                  => cycles[c].scheduled_time <= cycles[d].scheduled_time}

\* amounts an admin may pass to manual_match_requests: any Decimal
ManualAmounts == Amounts \cup {0 - MIN_AMOUNT}

\* "Validate amount" of manual_match_requests
ManualAmountOk(amount, funding_req, withdrawal_req) ==
    ~(amount > funding_req.amount_remaining \/ amount > withdrawal_req.amount_remaining)

manual_match_requests(admin, fid, wid, amount) ==
    /\ admin \in Admins
    /\ RowExists(funding, fid)
    /\ RowExists(withdrawal, wid)
    /\ ManualAmountOk(amount, funding[fid], withdrawal[wid])
    /\ NextCycles # {}
    /\ Len(pairs) < MaxPairs
    /\ pairs' = Append(pairs, NewPair(fid, wid, amount, NULL))
    /\ miss_applied' = Extend(miss_applied, Len(pairs) + 1)
    /\ funding' = [funding EXCEPT ![fid] = Decrement(@, amount)]
    /\ withdrawal' = [withdrawal EXCEPT ![wid] = Decrement(@, amount)]
    /\ AdminCall
    /\ UNCHANGED <<now, wallets, admin_wallets, cycles>>
    /\ Unrelated

\* match_with_admin_wallet, request_type = "funding"
match_with_admin_wallet_funding(admin, fid) ==
    LET req == funding[fid]
        amount == req.amount_remaining
        c == WalletCurrency(req.wallet_id)
    IN /\ admin \in Admins
       /\ RowExists(funding, fid)
       /\ admin_wallets' = [admin_wallets EXCEPT ![c].balance = @ + amount]
       /\ funding' = [funding EXCEPT ![fid].amount_remaining = 0,
                                     ![fid].is_fully_matched = TRUE,
                                     ![fid].is_completed = TRUE,
                                     ![fid].has_matched_at = TRUE]
       /\ wallets' = [wallets EXCEPT ![req.wallet_id].balance = @ + amount,
                                     ![req.wallet_id].total_deposited = @ + amount]
       /\ AdminCall
       /\ UNCHANGED <<now, withdrawal, pairs, cycles, miss_applied>>
       /\ Unrelated

\* match_with_admin_wallet, request_type = "withdrawal"
match_with_admin_wallet_withdrawal(admin, wid) ==
    LET req == withdrawal[wid]
        amount == req.amount_remaining
        c == WalletCurrency(req.wallet_id)
    IN /\ admin \in Admins
       /\ RowExists(withdrawal, wid)
       /\ ~(admin_wallets[c].balance < amount)
       /\ admin_wallets' = [admin_wallets EXCEPT ![c].balance = @ - amount]
       /\ withdrawal' = [withdrawal EXCEPT ![wid].amount_remaining = 0,
                                           ![wid].is_fully_matched = TRUE,
                                           ![wid].is_completed = TRUE,
                                           ![wid].has_matched_at = TRUE]
       /\ wallets' = [wallets EXCEPT ![req.wallet_id].balance = @ - amount]
       /\ AdminCall
       /\ UNCHANGED <<now, funding, pairs, cycles, miss_applied>>
       /\ Unrelated

\* unblock_user: every wallet of the user
unblock_user(admin, user) ==
    /\ admin \in Admins
    /\ wallets' = [w \in DOMAIN wallets |->
                      IF WalletUser(w) = user THEN [wallets[w] EXCEPT !.is_blocked = FALSE]
                      ELSE wallets[w]]
    /\ AdminCall
    /\ UNCHANGED <<now, admin_wallets, funding, withdrawal, pairs, cycles, miss_applied>>
    /\ Unrelated

----------------------------------------------------------------------------
\* The settlement system: users, admins, the scheduler and the clock

Next ==
    \/ run_matching
    \/ demo_trigger_merge("admin")
    \/ \E p \in DOMAIN pairs, u \in Users : upload_proof(p, u)
    \/ \E p \in DOMAIN pairs, u \in Users : upload_proof_late(p, u)
    \/ \E p \in DOMAIN pairs, u \in Users : confirm_proof(p, u)
    \/ \E p \in DOMAIN pairs, u \in Users : request_extension(p, u)
    \/ check_expired_deadlines
    \/ \E f \in DOMAIN funding, w \in DOMAIN withdrawal, a \in ManualAmounts :
          manual_match_requests("admin", f, w, a)
    \/ \E f \in DOMAIN funding : match_with_admin_wallet_funding("admin", f)
    \/ \E w \in DOMAIN withdrawal : match_with_admin_wallet_withdrawal("admin", w)
    \/ \E u \in Users : unblock_user("admin", u)
    \/ Tick

Spec == Init /\ [][Next]_vars

----------------------------------------------------------------------------
\* Properties of the settlement system

\* C1: every funding and withdrawal request has 0 <= amount_remaining <= amount,
\* whatever merge runs, manual matches, admin-wallet matches, sweeps and
\* upload_proof attempts (late ones included) have happened.
C1_RemainingWithinAmount ==
    /\ \A f \in DOMAIN funding :
          0 <= funding[f].amount_remaining /\ funding[f].amount_remaining <= funding[f].amount
    /\ \A w \in DOMAIN withdrawal :
          0 <= withdrawal[w].amount_remaining
              /\ withdrawal[w].amount_remaining <= withdrawal[w].amount

\* C2: for each pair the proof-deadline-miss transition is applied at most once:
\* its amount is restored onto the withdrawal request, and the request's
\* failed_match_count incremented, at most once for that pair.
C2_MissAppliedAtMostOnce ==
    \A p \in DOMAIN pairs : miss_applied[p] <= 1

\* "now > extended_deadline"
ExtendedDeadlinePassed(pair, t) == \E d \in pair.extended_deadline : t > d

\* C5: a pair whose extension was granted is not failed for a missed proof
\* deadline (by a rejected upload_proof or by the sweep) before its
\* extended_deadline has elapsed.
C5_ExtensionIsEffective ==
    [][\A p \in DOMAIN pairs :
          (/\ pairs[p].extension_granted
           /\ ~pairs[p].funder_missed_deadline
           /\ ~ExtendedDeadlinePassed(pairs[p], now'))
              => ~pairs'[p].funder_missed_deadline]_vars

\* C6: a sweep that finds a pair with its proof deadline elapsed and no proof
\* leaves the pair's withdrawal request with amount_remaining raised by the
\* pair's amount and is_fully_matched false.
C6_SweepRequeuesWithdrawal ==
    [][check_expired_deadlines =>
          \A p \in DOMAIN pairs :
              ExpiredProof(pairs[p], now) =>
                  LET wid == pairs[p].withdrawal_request_id
                  IN /\ withdrawal'[wid].amount_remaining
                            >= withdrawal[wid].amount_remaining + pairs[p].amount
                     /\ ~withdrawal'[wid].is_fully_matched]_vars

\* C8: proof_confirmed implies proof_uploaded for every match pair.
C8_ConfirmedImpliesUploaded ==
    \A p \in DOMAIN pairs : pairs[p].proof_confirmed => pairs[p].proof_uploaded

\* C8 witness: a pair has been confirmed
C8_Witness ==
    \E p \in DOMAIN pairs : pairs[p].proof_confirmed /\ pairs[p].amount > 0

\* C9: once a pair carries funder_missed_deadline or withdrawer_missed_deadline,
\* no step changes its proof_uploaded, proof_confirmed or extension_granted.
C9_FailedPairIsFrozen ==
    [][\A p \in DOMAIN pairs :
          (pairs[p].funder_missed_deadline \/ pairs[p].withdrawer_missed_deadline)
              => /\ pairs'[p].proof_uploaded = pairs[p].proof_uploaded
                 /\ pairs'[p].proof_confirmed = pairs[p].proof_confirmed
                 /\ pairs'[p].extension_granted = pairs[p].extension_granted]_vars

\* the wallet of the funder / of the withdrawer of a pair is blocked in ws
FunderBlocked(pair, ws) == ws[funding[pair.funding_request_id].wallet_id].is_blocked
WithdrawerBlocked(pair, ws) == ws[withdrawal[pair.withdrawal_request_id].wallet_id].is_blocked

\* the pair's proof deadline has elapsed at t with no proof uploaded
ProofOverdue(pair, t) == (\E d \in pair.proof_deadline : d <= t) /\ ~pair.proof_uploaded

\* the pair's proof is uploaded, unconfirmed, and its confirmation deadline has elapsed at t
ConfirmationOverdue(pair, t) ==
    /\ \E d \in pair.confirmation_deadline : d <= t
    /\ pair.proof_uploaded
    /\ ~pair.proof_confirmed

\* neither missed-deadline flag of any pair is reset by the step
FlagsKept ==
    \A p \in DOMAIN pairs :
        /\ pairs[p].funder_missed_deadline => pairs'[p].funder_missed_deadline
        /\ pairs[p].withdrawer_missed_deadline => pairs'[p].withdrawer_missed_deadline

\* C10 as stated: at the end of every sweep each overdue pair is flagged AND the
\* wallet of the party at fault is blocked; flags are never reset.
C10_SweepFlagsAndWalletBlocked ==
    [][/\ check_expired_deadlines =>
             \A p \in DOMAIN pairs :
                 /\ ProofOverdue(pairs'[p], now) =>
                        pairs'[p].funder_missed_deadline /\ FunderBlocked(pairs'[p], wallets')
                 /\ ConfirmationOverdue(pairs'[p], now) =>
                        pairs'[p].withdrawer_missed_deadline
                            /\ WithdrawerBlocked(pairs'[p], wallets')
       /\ FlagsKept]_vars

\* C10 (amended): at the end of every sweep each overdue pair is flagged, the
\* wallet of the party at fault of each pair that this sweep flagged is blocked,
\* and flags are never reset.  (A wallet blocked by an earlier sweep may have
\* been unblocked by an administrator since.)
C10_SweepFlagsAndBlocksNewlyFlagged ==
    [][/\ check_expired_deadlines =>
             \A p \in DOMAIN pairs :
                 /\ ProofOverdue(pairs'[p], now) => pairs'[p].funder_missed_deadline
                 /\ ConfirmationOverdue(pairs'[p], now) => pairs'[p].withdrawer_missed_deadline
                 /\ (~pairs[p].funder_missed_deadline /\ pairs'[p].funder_missed_deadline)
                        => FunderBlocked(pairs'[p], wallets')
                 /\ (~pairs[p].withdrawer_missed_deadline /\ pairs'[p].withdrawer_missed_deadline)
                        => WithdrawerBlocked(pairs'[p], wallets')
       /\ FlagsKept]_vars

\* C10 witness: the sweep has flagged one pair for its funder (no late upload
\* did it) and one pair for its withdrawer, and both wallets are blocked
C10_Witness ==
    /\ \E p \in DOMAIN pairs :
          /\ pairs[p].funder_missed_deadline
          /\ miss_applied[p] = 0
          /\ FunderBlocked(pairs[p], wallets)
    /\ \E q \in DOMAIN pairs :
          /\ pairs[q].withdrawer_missed_deadline
          /\ WithdrawerBlocked(pairs[q], wallets)

----------------------------------------------------------------------------
\* smart_match_requests on its own: the open requests of one currency as
\* run_merge_cycle hands them over, every amount_remaining strictly positive

\* request lists of up to MaxMatchLen rows, ids in query order
MatchInputs ==
    {[i \in 1..Len(s) |-> <<i, s[i]>>] : s \in SeqsUpTo(1..MaxRemaining, MaxMatchLen)}

InitMatch ==
    /\ now = StartOfDay
    /\ wallets = InitWallets(NairaWallets)
    /\ admin_wallets = InitAdminWallets
    /\ funding = <<>>
    /\ withdrawal = <<>>
    /\ pairs = <<>>
    /\ cycles = InitCycles
    /\ miss_applied = <<>>
    /\ admin_calls = 0
    /\ workers = NoWorkers
    /\ sessions = <<>>
    /\ mf \in MatchInputs
    /\ mw \in MatchInputs
    /\ mout = NULL

\* matches = smart_match_requests(funding_requests, withdrawal_requests)
CallSmartMatch ==
    /\ mout = NULL
    /\ mout' = At(smart_match_requests(mf, mw))
    /\ UNCHANGED <<now, wallets, admin_wallets, funding, withdrawal, pairs, cycles,
                   miss_applied, admin_calls, workers, sessions, mf, mw>>

NextMatch == CallSmartMatch

SpecMatch == InitMatch /\ [][NextMatch]_vars

\* sum of column k of a list of tuples
RECURSIVE SumColumn(_, _)
SumColumn(s, k) == IF s = <<>> THEN 0 ELSE Head(s)[k] + SumColumn(Tail(s), k)

\* C4: the amounts of the triples smart_match_requests returns sum to exactly
\* min(total funder amount_remaining, total withdrawer amount_remaining).
C4_MatchesSumToMinOfTotals ==
    \A matches \in mout :
        SumColumn(matches, 3) = Min(SumColumn(mf, 2), SumColumn(mw, 2))

\* C4 witness: the function has returned several triples for sides whose
\* totals differ, one request being split over two counterparties
C4_Witness ==
    \E matches \in mout :
        /\ Len(matches) >= 2
        /\ SumColumn(mf, 2) # SumColumn(mw, 2)
        /\ \E a, b \in DOMAIN matches : a # b /\ matches[a][1] = matches[b][1]

----------------------------------------------------------------------------
\* run_merge_cycle (celery_batch_matching.py) as Celery workers execute it:
\* each task has its own session; rows are read when queried and written at
\* db.commit() (autoflush is off, isolation is READ COMMITTED)

\* run_merge_cycle.delay(cycle_id)
NewTask(cycle_id) ==
    [cycle |-> cycle_id, pc |-> "queued", status |-> "", k |-> 1,
     lf |-> <<>>, lw |-> <<>>, cyc |-> <<>>, expired |-> TRUE, claimed |-> FALSE]

\* ready_cycles of schedule_merge_cycle_execution
ReadyCycles ==
    {c \in DOMAIN cycles : cycles[c].scheduled_time <= now /\ cycles[c].status = "pending"}

RECURSIVE Delay(_, _)
Delay(ws, cs) ==
    IF cs = {} THEN ws
    ELSE LET c == CHOOSE x \in cs : \A y \in cs : x <= y
         IN Delay(Append(ws, NewTask(c)), cs \ {c})

Frozen == UNCHANGED <<now, wallets, admin_wallets, sessions, mf, mw, mout>>

schedule_merge_cycle_execution ==
    /\ ReadyCycles # {}
    /\ Len(workers) + Cardinality(ReadyCycles) <= MaxWorkers
    /\ workers' = Delay(workers, ReadyCycles)
    /\ NoAdminCall
    /\ UNCHANGED <<funding, withdrawal, pairs, cycles, miss_applied>>
    /\ Frozen

trigger_merge_cycle_manually(admin) ==
    /\ admin \in Admins
    /\ Len(workers) < MaxWorkers
    /\ \E c \in NextCycles : workers' = Append(workers, NewTask(c))
    /\ AdminCall
    /\ UNCHANGED <<funding, withdrawal, pairs, cycles, miss_applied>>
    /\ Frozen

\* cycle = db.query(MergeCycle)...first(); if cycle.status != "pending": return
ReadCycle(k) ==
    /\ workers[k].pc = "queued"
    /\ workers' = [workers EXCEPT
          ![k].status = cycles[workers[k].cycle].status,
          ![k].pc = IF cycles[workers[k].cycle].status # "pending" THEN "done" ELSE "checked"]
    /\ NoAdminCall
    /\ UNCHANGED <<funding, withdrawal, pairs, cycles, miss_applied>>
    /\ Frozen

\* cycle.status = "processing"; db.commit()
ClaimCycle(k) ==
    /\ workers[k].pc = "checked"
    /\ cycles' = [cycles EXCEPT ![workers[k].cycle].status = "processing"]
    /\ workers' = [workers EXCEPT ![k].pc = "query", ![k].claimed = TRUE, ![k].expired = TRUE]
    /\ NoAdminCall
    /\ UNCHANGED <<funding, withdrawal, pairs, miss_applied>>
    /\ Frozen

\* position after one currency of the loop
AfterCurrency(k) == IF k + 1 > Len(Currencies) THEN "complete" ELSE "query"

\* the two batch queries of one currency; the cycle row is re-read when the
\* last commit expired it; "continue" when both lists are empty
QueryRequests(k) ==
    LET w == workers[k]
        cyc == IF w.expired THEN cycles[w.cycle] ELSE w.cyc
        funding_requests == SelectRows(funding, Currencies[w.k], At(cyc.cutoff_time), 1)
        withdrawal_requests == SelectRows(withdrawal, Currencies[w.k], At(cyc.cutoff_time), 1)
    IN /\ w.pc = "query"
       /\ workers' = [workers EXCEPT ![k] =
             IF funding_requests = <<>> /\ withdrawal_requests = <<>>
             THEN [w EXCEPT !.cyc = cyc, !.expired = FALSE, !.k = @ + 1,
                            !.pc = AfterCurrency(w.k)]
             ELSE [w EXCEPT !.cyc = cyc, !.expired = FALSE, !.pc = "commit",
                            !.lf = funding, !.lw = withdrawal]]
       /\ NoAdminCall
       /\ UNCHANGED <<funding, withdrawal, pairs, cycles, miss_applied>>
       /\ Frozen

\* the UPDATE a commit sends for a request row the session changed: the
\* session's amount_remaining, and the full-match columns if it set them
WriteBack(table, local, ids) ==
    [i \in DOMAIN table |->
        IF i \in ids
        THEN [table[i] EXCEPT
                 !.amount_remaining = local[i].amount_remaining,
                 !.is_fully_matched = local[i].is_fully_matched \/ @,
                 !.has_matched_at = local[i].has_matched_at \/ @]
        ELSE table[i]]

\* "Create match pairs", db.commit(), the unmatched counts, db.commit()
CommitBatch(k) ==
    LET w == workers[k]
        funding_requests == SelectRows(w.lf, Currencies[w.k], At(w.cyc.cutoff_time), 1)
        withdrawal_requests == SelectRows(w.lw, Currencies[w.k], At(w.cyc.cutoff_time), 1)
        user_matches == smart_match_requests(funding_requests, withdrawal_requests)
        local == ApplyMatches([funding |-> w.lf, withdrawal |-> w.lw, pairs |-> <<>>],
                              user_matches, now)
        fs == WriteBack(funding, local.funding, {user_matches[i][1] : i \in DOMAIN user_matches})
        ws == WriteBack(withdrawal, local.withdrawal,
                        {user_matches[i][2] : i \in DOMAIN user_matches})
        unmatched_funding ==
            {i \in DOMAIN funding_requests : fs[funding_requests[i][1]].amount_remaining > 0}
        unmatched_withdrawal ==
            {i \in DOMAIN withdrawal_requests :
                ws[withdrawal_requests[i][1]].amount_remaining > 0}
    IN /\ w.pc = "commit"
       /\ funding' = fs
       /\ withdrawal' = ws
       /\ pairs' = pairs \o local.pairs
       /\ miss_applied' = Extend(miss_applied, Len(pairs) + Len(local.pairs))
       /\ cycles' = [cycles EXCEPT ![w.cycle] =
             [@ EXCEPT
                 !.total_funding_requests =
                     IF funding_requests = <<>> THEN @
                     ELSE w.cyc.total_funding_requests + Len(funding_requests),
                 !.total_withdrawal_requests =
                     IF withdrawal_requests = <<>> THEN @
                     ELSE w.cyc.total_withdrawal_requests + Len(withdrawal_requests),
                 !.matched_pairs =
                     IF user_matches = <<>> THEN @
                     ELSE w.cyc.matched_pairs + Len(user_matches),
                 !.unmatched_funding = @ + Cardinality(unmatched_funding),
                 !.unmatched_withdrawal = @ + Cardinality(unmatched_withdrawal)]]
       /\ workers' = [workers EXCEPT ![k] =
             [w EXCEPT !.expired = TRUE, !.k = @ + 1, !.pc = AfterCurrency(w.k),
                       !.lf = <<>>, !.lw = <<>>, !.cyc = <<>>]]
       /\ NoAdminCall
       /\ Frozen

\* An exception inside the "Create match pairs" loop, after j whole iterations
\* (added: also after db.add(pair) of iteration j + 1), with the database still
\* reachable.  The handler sets cycle.status = "failed" and calls db.commit()
\* without a rollback, which flushes whatever the session holds.
FailBatchAt(k, j, added) ==
    LET w == workers[k]
        funding_requests == SelectRows(w.lf, Currencies[w.k], At(w.cyc.cutoff_time), 1)
        withdrawal_requests == SelectRows(w.lw, Currencies[w.k], At(w.cyc.cutoff_time), 1)
        user_matches == smart_match_requests(funding_requests, withdrawal_requests)
        iterated == SubSeq(user_matches, 1, j)
        local == ApplyMatches([funding |-> w.lf, withdrawal |-> w.lw, pairs |-> <<>>],
                              iterated, now)
        m == user_matches[j + 1]
        pending == IF added
                   THEN <<NewPair(m[1], m[2], m[3], At(now + PROOF_DEADLINE_HOURS * Hour))>>
                   ELSE <<>>
    IN /\ w.pc = "commit"
       /\ j < Len(user_matches)
       /\ funding' = WriteBack(funding, local.funding, {iterated[i][1] : i \in DOMAIN iterated})
       /\ withdrawal' = WriteBack(withdrawal, local.withdrawal,
                                  {iterated[i][2] : i \in DOMAIN iterated})
       /\ pairs' = pairs \o local.pairs \o pending
       /\ miss_applied' = Extend(miss_applied, Len(pairs) + Len(local.pairs) + Len(pending))
       /\ cycles' = [cycles EXCEPT ![w.cycle] =
             [@ EXCEPT
                 !.status = "failed",
                 !.total_funding_requests =
                     IF funding_requests = <<>> THEN @
                     ELSE w.cyc.total_funding_requests + Len(funding_requests),
                 !.total_withdrawal_requests =
                     IF withdrawal_requests = <<>> THEN @
                     ELSE w.cyc.total_withdrawal_requests + Len(withdrawal_requests),
                 !.matched_pairs = IF j = 0 THEN @ ELSE w.cyc.matched_pairs + j]]
       /\ workers' = [workers EXCEPT ![k] =
             [w EXCEPT !.pc = "done", !.lf = <<>>, !.lw = <<>>, !.cyc = <<>>]]
       /\ NoAdminCall
       /\ Frozen

\* the failure points of one batch
FailBatch(k) ==
    \E j \in 0..(MaxFunding + MaxWithdrawal), added \in BOOLEAN : FailBatchAt(k, j, added)

\* cycle.status = "completed"; db.commit()
CompleteCycle(k) ==
    /\ workers[k].pc = "complete"
    /\ cycles' = [cycles EXCEPT ![workers[k].cycle].status = "completed"]
    /\ workers' = [workers EXCEPT ![k].pc = "done", ![k].cyc = <<>>]
    /\ NoAdminCall
    /\ UNCHANGED <<funding, withdrawal, pairs, miss_applied>>
    /\ Frozen

\* one step of the task a worker is executing
run_merge_cycle(k) ==
    \/ ReadCycle(k)
    \/ ClaimCycle(k)
    \/ QueryRequests(k)
    \/ CommitBatch(k)
    \/ FailBatch(k)
    \/ CompleteCycle(k)

NextCycle ==
    \/ schedule_merge_cycle_execution
    \/ trigger_merge_cycle_manually("admin")
    \/ \E k \in DOMAIN workers : run_merge_cycle(k)

SpecCycle == Init /\ [][NextCycle]_vars

\* C3: a merge cycle is processed at most once: of the run_merge_cycle tasks
\* sent for one cycle, at most one claims it (passes the status check and
\* performs matching); the others are no-ops.
C3_CycleClaimedAtMostOnce ==
    \A a, b \in DOMAIN workers :
        (a # b /\ workers[a].cycle = workers[b].cycle)
            => ~(workers[a].claimed /\ workers[b].claimed)

----------------------------------------------------------------------------
\* The ledger within the hour of a merge: users create requests, the merge
\* runs, pairs are settled, and an administrator may match by hand

NextLedger ==
    \/ \E u \in Users, w \in WalletIds, a \in Amounts : create_funding_request(u, w, a)
    \/ \E u \in Users, w \in WalletIds, a \in Amounts : create_withdrawal_request(u, w, a)
    \/ run_matching
    \/ \E p \in DOMAIN pairs, u \in Users : upload_proof(p, u)
    \/ \E p \in DOMAIN pairs, u \in Users : confirm_proof(p, u)
    \/ \E f \in DOMAIN funding, w \in DOMAIN withdrawal, a \in ManualAmounts :
          manual_match_requests("admin", f, w, a)

SpecLedger == InitLedger /\ [][NextLedger]_vars

\* C7: a successful confirm_proof on a pair of amount A raises the funder
\* wallet's balance and total_deposited by exactly A, lowers the withdrawer
\* wallet's balance by exactly A, sets proof_confirmed, and changes the balance
\* of no other wallet.
C7_ConfirmMovesAmount ==
    [][\A p \in DOMAIN pairs, u \in Users :
          confirm_proof(p, u) =>
              LET A == pairs[p].amount
                  fw == funding[pairs[p].funding_request_id].wallet_id
                  ww == withdrawal[pairs[p].withdrawal_request_id].wallet_id
              IN /\ wallets'[fw].balance = wallets[fw].balance + A
                 /\ wallets'[fw].total_deposited = wallets[fw].total_deposited + A
                 /\ wallets'[ww].balance = wallets[ww].balance - A
                 /\ pairs'[p].proof_confirmed
                 /\ \A o \in DOMAIN wallets \ {fw, ww} :
                        wallets'[o].balance = wallets[o].balance]_vars

----------------------------------------------------------------------------
\* Further properties of the settlement system

\* the extension columns of a pair
ExtensionColumns(pair) ==
    <<pair.extension_requested, pair.extension_granted, pair.extended_deadline>>

\* C11: the extension columns of a pair change only when no extension was
\* requested before, no proof is uploaded and the proof deadline has not passed;
\* the change records extended_deadline = proof_deadline + 1 hour and marks the
\* extension as requested, so it happens at most once per pair.
C11_ExtensionOnceBeforeUploadAndDeadline ==
    [][\A p \in DOMAIN pairs :
          ExtensionColumns(pairs'[p]) # ExtensionColumns(pairs[p]) =>
              /\ ~pairs[p].extension_requested
              /\ ~pairs[p].proof_uploaded
              /\ ~ProofDeadlinePassed(pairs[p], now)
              /\ pairs'[p].extension_requested
              /\ pairs'[p].extension_granted
              /\ pairs'[p].extended_deadline =
                     {d + EXTENSION_HOURS * Hour : d \in pairs[p].proof_deadline}
              /\ pairs'[p].extended_deadline # NULL]_vars

\* C11 witness: an extension was granted, and the proof was uploaded afterwards
C11_Witness ==
    \E p \in DOMAIN pairs :
        /\ pairs[p].extension_granted
        /\ pairs[p].proof_uploaded
        /\ pairs[p].extended_deadline =
               {d + EXTENSION_HOURS * Hour : d \in pairs[p].proof_deadline}

----------------------------------------------------------------------------
\* Cancelling a request (main.py), around the cutoff of the next merge cycle

\* is_before_cutoff(next_cycle) for the cycle get_next_merge_cycle returns;
\* "No next cycle, safe to cancel"
BeforeNextCutoff == \A c \in NextCycles : now < cycles[c].cutoff_time

\* the checks cancel_funding_request and cancel_withdrawal_request make
CancelAccepted(table, request_id, user_id) ==
    /\ RowExists(table, request_id)
    /\ WalletUser(table[request_id].wallet_id) = user_id
    /\ ~table[request_id].is_completed
    /\ ~(table[request_id].is_fully_matched \/ table[request_id].has_matched_at)
    /\ BeforeNextCutoff

\* db.delete(funding_req); db.commit().  Where the database enforces the
\* foreign key of funding_match_pairs the commit of a referenced row fails and
\* rolls back (no step); where it does not (SQLite as the tests configure it)
\* the row goes.
\* a cancel that answers without deleting the row
cancel_funding_request_Keep(request_id, user_id) ==
    /\ CancelAccepted(funding, request_id, user_id)
    /\ funding' = [funding EXCEPT ![request_id].failed_match_count = @ + 1]
    /\ NoAdminCall
    /\ UNCHANGED <<now, wallets, admin_wallets, withdrawal, pairs, cycles, miss_applied>>
    /\ Unrelated

cancel_funding_request(request_id, user_id) ==
    /\ CancelAccepted(funding, request_id, user_id)
    /\ funding' = [funding EXCEPT ![request_id].deleted = TRUE]
    /\ NoAdminCall
    /\ UNCHANGED <<now, wallets, admin_wallets, withdrawal, pairs, cycles, miss_applied>>
    /\ Unrelated

cancel_withdrawal_request(request_id, user_id) ==
    /\ CancelAccepted(withdrawal, request_id, user_id)
    /\ withdrawal' = [withdrawal EXCEPT ![request_id].deleted = TRUE]
    /\ NoAdminCall
    /\ UNCHANGED <<now, wallets, admin_wallets, funding, pairs, cycles, miss_applied>>
    /\ Unrelated

\* the instants around each cycle at which the cutoff test changes its answer
CutoffInstants ==
    UNION {{cycles[c].cutoff_time - 1, cycles[c].cutoff_time, cycles[c].scheduled_time} :
              c \in DOMAIN cycles}

\* time passes to the next of these instants
Advance ==
    /\ \E t \in CutoffInstants :
          /\ t > now
          /\ \A u \in CutoffInstants : u > now => t <= u
          /\ now' = t
    /\ NoAdminCall
    /\ UNCHANGED <<wallets, admin_wallets, funding, withdrawal, pairs, cycles, miss_applied>>
    /\ Unrelated

NextCancel ==
    \/ run_matching
    \/ \E f \in DOMAIN funding, u \in Users : cancel_funding_request(f, u)
    \/ \E w \in DOMAIN withdrawal, u \in Users : cancel_withdrawal_request(w, u)
    \/ Advance

SpecCancel == Init /\ [][NextCancel]_vars

\* some pair references the funding / withdrawal request
FundingReferenced(f) == \E p \in DOMAIN pairs : pairs[p].funding_request_id = f
WithdrawalReferenced(w) == \E p \in DOMAIN pairs : pairs[p].withdrawal_request_id = w

----------------------------------------------------------------------------
\* Two API handlers in flight at once (several server processes): each handler
\* reads its rows into its own session, computes on them, and db.commit() writes
\* the columns it changed as absolute values.  No handler locks a row.

Settled == UNCHANGED <<now, cycles, miss_applied, admin_calls, workers, mf, mw, mout>>

\* match_with_admin_wallet, request_type = "withdrawal": the queries and the
\* "Check admin wallet has enough" test
ReadAdminWithdrawal(admin, wid) ==
    LET req == withdrawal[wid]
        amount == req.amount_remaining
        c == WalletCurrency(req.wallet_id)
    IN /\ admin \in Admins
       /\ RowExists(withdrawal, wid)
       /\ ~(admin_wallets[c].balance < amount)
       /\ Len(sessions) < MaxSessions
       /\ sessions' = Append(sessions,
             [op |-> "admin_withdrawal", id |-> wid, amount |-> amount,
              admin_wallet |-> admin_wallets[c], funder |-> <<>>,
              withdrawer |-> wallets[req.wallet_id], done |-> FALSE])
       /\ UNCHANGED <<wallets, admin_wallets, funding, withdrawal, pairs>>
       /\ Settled

\* ... "Admin sends money" up to db.commit()
CommitAdminWithdrawal(k) ==
    LET s == sessions[k]
        req == withdrawal[s.id]
        c == WalletCurrency(req.wallet_id)
    IN /\ s.op = "admin_withdrawal"
       /\ ~s.done
       /\ admin_wallets' = [admin_wallets EXCEPT ![c].balance = s.admin_wallet.balance - s.amount]
       /\ withdrawal' = [withdrawal EXCEPT ![s.id].amount_remaining = 0,
                                           ![s.id].is_fully_matched = TRUE,
                                           ![s.id].is_completed = TRUE,
                                           ![s.id].has_matched_at = TRUE]
       /\ wallets' = [wallets EXCEPT ![req.wallet_id].balance = s.withdrawer.balance - s.amount]
       /\ sessions' = [sessions EXCEPT ![k].done = TRUE]
       /\ UNCHANGED <<funding, pairs>>
       /\ Settled

\* confirm_proof: the checks and the queries of both wallets
ReadConfirm(pair_id, user_id) ==
    LET pair == pairs[pair_id]
    IN /\ ConfirmAccepted(pair_id, user_id)
       /\ RowExists(funding, pair.funding_request_id)
       /\ Len(sessions) < MaxSessions
       /\ sessions' = Append(sessions,
             [op |-> "confirm", id |-> pair_id, amount |-> pair.amount,
              admin_wallet |-> <<>>,
              funder |-> wallets[funding[pair.funding_request_id].wallet_id],
              withdrawer |-> wallets[withdrawal[pair.withdrawal_request_id].wallet_id],
              done |-> FALSE])
       /\ UNCHANGED <<wallets, admin_wallets, funding, withdrawal, pairs>>
       /\ Settled

\* ... "Confirm proof and update balances" up to db.commit()
CommitConfirm(k) ==
    LET s == sessions[k]
        pair == pairs[s.id]
        fid == pair.funding_request_id
        wid == pair.withdrawal_request_id
        funder_wallet == funding[fid].wallet_id
        withdrawer_wallet == withdrawal[wid].wallet_id
        credited == [wallets EXCEPT
                        ![funder_wallet].balance = s.funder.balance + s.amount,
                        ![funder_wallet].total_deposited = s.funder.total_deposited + s.amount]
        debited == [credited EXCEPT
                       ![withdrawer_wallet].balance =
                           (IF withdrawer_wallet = funder_wallet
                            THEN s.funder.balance + s.amount
                            ELSE s.withdrawer.balance) - s.amount]
        ps == [pairs EXCEPT ![s.id].proof_confirmed = TRUE]
    IN /\ s.op = "confirm"
       /\ ~s.done
       /\ pairs' = ps
       /\ wallets' = debited
       /\ funding' = IF AllConfirmed(ps, "funding_request_id", fid)
                     THEN [funding EXCEPT ![fid].is_completed = TRUE] ELSE funding
       /\ withdrawal' = IF AllConfirmed(ps, "withdrawal_request_id", wid)
                        THEN [withdrawal EXCEPT ![wid].is_completed = TRUE] ELSE withdrawal
       /\ sessions' = [sessions EXCEPT ![k].done = TRUE]
       /\ UNCHANGED admin_wallets
       /\ Settled

NextRace ==
    \/ run_matching
    \/ \E p \in DOMAIN pairs, u \in Users : upload_proof(p, u)
    \/ \E f \in DOMAIN funding : match_with_admin_wallet_funding("admin", f)
    \/ \E w \in DOMAIN withdrawal : ReadAdminWithdrawal("admin", w)
    \/ \E k \in DOMAIN sessions : CommitAdminWithdrawal(k)
    \/ \E p \in DOMAIN pairs, u \in Users : ReadConfirm(p, u)
    \/ \E k \in DOMAIN sessions : CommitConfirm(k)

SpecRace == Init /\ [][NextRace]_vars

\* C13: every admin-wallet payout lowers the pool balance of its currency by
\* exactly the amount paid out, and the pool balance is never negative.
C13_PoolPayoutsAllCounted ==
    [][\A k \in DOMAIN sessions :
          CommitAdminWithdrawal(k) =>
              LET c == WalletCurrency(withdrawal[sessions[k].id].wallet_id)
              IN /\ admin_wallets'[c].balance = admin_wallets[c].balance - sessions[k].amount
                 /\ admin_wallets'[c].balance >= 0]_vars

\* C14: every confirmation credits the funder's wallet and debits the
\* withdrawer's wallet by the pair's amount relative to the balance the wallet
\* has at that moment: no update of another settlement is lost.
C14_NoBalanceUpdateLost ==
    [][\A k \in DOMAIN sessions :
          CommitConfirm(k) =>
              LET pair == pairs[sessions[k].id]
                  fw == funding[pair.funding_request_id].wallet_id
                  ww == withdrawal[pair.withdrawal_request_id].wallet_id
              IN fw # ww =>
                    /\ wallets'[fw].balance = wallets[fw].balance + pair.amount
                    /\ wallets'[ww].balance = wallets[ww].balance - pair.amount]_vars

----------------------------------------------------------------------------
\* Properties of merge cycles

\* C15: a run_merge_cycle that fails inside a currency batch leaves the cycle
\* failed and persists nothing of the failing batch: no pair and no change of
\* any request is written by the failing run's error handler.
C15_FailedBatchNotApplied ==
    [][\A k \in DOMAIN workers :
          FailBatch(k) =>
              /\ cycles'[workers[k].cycle].status = "failed"
              /\ pairs' = pairs
              /\ funding' = funding
              /\ withdrawal' = withdrawal]_vars

\* the order of the statuses of a cycle; completed and failed are final
StatusMayFollow(before, after) ==
    \/ before = after
    \/ before = "pending" /\ after = "processing"
    \/ before = "processing" /\ after \in {"completed", "failed"}

\* C17: the status of a merge cycle only moves forward along
\* pending -> processing -> {completed, failed}.
C17_StatusOnlyForward ==
    [][\A c \in DOMAIN cycles : StatusMayFollow(cycles[c].status, cycles'[c].status)]_vars

\* C18: at most one merge cycle is in status processing at any time.
C18_OneCycleProcessing ==
    Cardinality({c \in DOMAIN cycles : cycles[c].status = "processing"}) <= 1

----------------------------------------------------------------------------
\* Frame and bookkeeping properties of pairs and requests

\* C16: a pair action that is rejected changes no pair, request or wallet; in
\* particular the upload_proof answered 400 because the proof deadline has
\* passed.  (The other rejections raise before any write and are no steps.)
C16_RejectedActionChangesNothing ==
    [][\A p \in DOMAIN pairs, u \in Users :
          upload_proof_late(p, u) =>
              /\ pairs' = pairs
              /\ funding' = funding
              /\ withdrawal' = withdrawal
              /\ wallets' = wallets]_vars

\* C19: a pair that a step creates has an amount no larger than the
\* amount_remaining that its funding request and its withdrawal request have
\* in the database when the step creates it.
C19_NewPairWithinRemaining ==
    [][\A p \in DOMAIN pairs' :
          p > Len(pairs) =>
              /\ pairs'[p].amount <= funding[pairs'[p].funding_request_id].amount_remaining
              /\ pairs'[p].amount
                     <= withdrawal[pairs'[p].withdrawal_request_id].amount_remaining]_vars

\* C20: a request flagged is_fully_matched has amount_remaining = 0.
C20_FullyMatchedHasNothingRemaining ==
    /\ \A f \in DOMAIN funding :
          funding[f].is_fully_matched => funding[f].amount_remaining = 0
    /\ \A w \in DOMAIN withdrawal :
          withdrawal[w].is_fully_matched => withdrawal[w].amount_remaining = 0

\* C21: no step makes a request's amount_remaining larger than it was, and
\* amount_remaining is never negative.
C21_RemainingNeverGrows ==
    [][/\ \A f \in DOMAIN funding :
             /\ funding'[f].amount_remaining <= funding[f].amount_remaining
             /\ funding'[f].amount_remaining >= 0
       /\ \A w \in DOMAIN withdrawal :
             /\ withdrawal'[w].amount_remaining <= withdrawal[w].amount_remaining
             /\ withdrawal'[w].amount_remaining >= 0]_vars

----------------------------------------------------------------------------
\* The settlement of a day's pairs followed past the confirmation deadline:
\* users, the scheduler, the sweep and the clock, without admin endpoints

\* hours after the first merge instant that the clock may reach
MaxSettleHours == 8

SettleTick ==
    /\ now + Hour <= StartOfDay + MaxSettleHours * Hour
    /\ now' = now + Hour
    /\ NoAdminCall
    /\ UNCHANGED <<wallets, admin_wallets, funding, withdrawal, pairs, cycles, miss_applied>>
    /\ Unrelated

NextSettle ==
    \/ run_matching
    \/ \E p \in DOMAIN pairs, u \in Users : upload_proof(p, u)
    \/ \E p \in DOMAIN pairs, u \in Users : upload_proof_late(p, u)
    \/ \E p \in DOMAIN pairs, u \in Users : confirm_proof(p, u)
    \/ \E p \in DOMAIN pairs, u \in Users : request_extension(p, u)
    \/ check_expired_deadlines
    \/ SettleTick

SpecSettle == Init /\ [][NextSettle]_vars

\* C22: a pair never has both funder_missed_deadline and
\* withdrawer_missed_deadline set.
C22_AtMostOneMissFlag ==
    \A p \in DOMAIN pairs :
        ~(pairs[p].funder_missed_deadline /\ pairs[p].withdrawer_missed_deadline)

\* C23: a step that confirms a pair leaves the pair's funding request completed
\* when every pair of that request is confirmed afterwards, and does not change
\* the request's is_completed while one of its pairs is still unconfirmed; the
\* same for the pair's withdrawal request.
C23_CompletedExactlyWhenAllConfirmed ==
    [][\A p \in DOMAIN pairs :
          (~pairs[p].proof_confirmed /\ pairs'[p].proof_confirmed) =>
              LET fid == pairs[p].funding_request_id
                  wid == pairs[p].withdrawal_request_id
                  funding_done == \A q \in DOMAIN pairs' :
                      pairs'[q].funding_request_id = fid => pairs'[q].proof_confirmed
                  withdrawal_done == \A q \in DOMAIN pairs' :
                      pairs'[q].withdrawal_request_id = wid => pairs'[q].proof_confirmed
              IN /\ funding_done => funding'[fid].is_completed
                 /\ ~funding_done => funding'[fid].is_completed = funding[fid].is_completed
                 /\ withdrawal_done => withdrawal'[wid].is_completed
                 /\ ~withdrawal_done =>
                        withdrawal'[wid].is_completed = withdrawal[wid].is_completed]_vars

\* a request with two pairs, one confirmed and one not, that is not completed
C23_Witness ==
    \E p \in DOMAIN pairs, q \in DOMAIN pairs :
        /\ pairs[p].proof_confirmed
        /\ ~pairs[q].proof_confirmed
        /\ \/ /\ pairs[p].funding_request_id = pairs[q].funding_request_id
              /\ ~funding[pairs[p].funding_request_id].is_completed
           \/ /\ pairs[p].withdrawal_request_id = pairs[q].withdrawal_request_id
              /\ ~withdrawal[pairs[p].withdrawal_request_id].is_completed

\* C27: every pair is created with proof_deadline set to its creation time
\* plus 4 hours, the pairs of manual_match_requests included.
C27_NewPairHasProofDeadline ==
    [][\A p \in DOMAIN pairs' :
          p > Len(pairs) =>
              pairs'[p].proof_deadline = At(now + PROOF_DEADLINE_HOURS * Hour)]_vars

\* C28: the funding request and the withdrawal request of a pair belong to
\* wallets of the same currency.
C28_PairWithinOneCurrency ==
    \A p \in DOMAIN pairs :
        WalletCurrency(funding[pairs[p].funding_request_id].wallet_id)
            = WalletCurrency(withdrawal[pairs[p].withdrawal_request_id].wallet_id)

----------------------------------------------------------------------------
\* Properties of one currency batch

\* the total amount of the pairs of ps that reference request id in column field
RECURSIVE PairTotal(_, _, _)
PairTotal(ps, field, id) ==
    IF ps = <<>> THEN 0
    ELSE (IF Head(ps)[field] = id THEN Head(ps).amount ELSE 0)
         + PairTotal(Tail(ps), field, id)

\* C24: the commit of a currency batch stores exactly the triples that
\* smart_match_requests returned to the task, in that order; afterwards every
\* request's amount_remaining is its stored value before the commit minus the
\* total of its new pairs, and a request with a new pair is is_fully_matched
\* exactly when its amount_remaining is 0.
C24_BatchPersistsMatches ==
    [][\A k \in DOMAIN workers :
          CommitBatch(k) =>
              LET w == workers[k]
                  emitted == smart_match_requests(
                                 SelectRows(w.lf, Currencies[w.k], At(w.cyc.cutoff_time), 1),
                                 SelectRows(w.lw, Currencies[w.k], At(w.cyc.cutoff_time), 1))
                  new == SubSeq(pairs', Len(pairs) + 1, Len(pairs'))
              IN /\ Len(new) = Len(emitted)
                 /\ \A i \in DOMAIN new :
                       emitted[i] = <<new[i].funding_request_id,
                                      new[i].withdrawal_request_id, new[i].amount>>
                 /\ \A f \in DOMAIN funding :
                       /\ funding'[f].amount_remaining =
                              funding[f].amount_remaining
                                  - PairTotal(new, "funding_request_id", f)
                       /\ (\E i \in DOMAIN new : new[i].funding_request_id = f) =>
                              (funding'[f].is_fully_matched
                                   <=> funding'[f].amount_remaining = 0)
                 /\ \A x \in DOMAIN withdrawal :
                       /\ withdrawal'[x].amount_remaining =
                              withdrawal[x].amount_remaining
                                  - PairTotal(new, "withdrawal_request_id", x)
                       /\ (\E i \in DOMAIN new : new[i].withdrawal_request_id = x) =>
                              (withdrawal'[x].is_fully_matched
                                   <=> withdrawal'[x].amount_remaining = 0)]_vars

\* C26: when a merge cycle has committed a currency batch, no funding request
\* of the batch keeps a positive amount_remaining: what peer matching left over
\* has been absorbed by the admin liquidity pool.
C26_LeftoverFundingAbsorbed ==
    [][\A k \in DOMAIN workers :
          CommitBatch(k) =>
              LET w == workers[k]
                  funding_requests ==
                      SelectRows(w.lf, Currencies[w.k], At(w.cyc.cutoff_time), 1)
              IN \A i \in DOMAIN funding_requests :
                    funding'[funding_requests[i][1]].amount_remaining = 0]_vars

----------------------------------------------------------------------------
\* smart_match_requests on the rows as a batch query returns them.  The queries
\* of run_merge_cycle and run_matching have no ORDER BY, so the rows arrive in
\* an order the database chooses; a request's id stands for its arrival rank.

\* the permutations of 1..n
Perms(n) == {p \in [1..n -> 1..n] : \A i, j \in 1..n : i # j => p[i] # p[j]}

\* the lists of <<id, amount_remaining>> a query may return
QueryResults ==
    UNION {{[i \in 1..Len(s) |-> <<p[i], s[p[i]]>>] : p \in Perms(Len(s))} :
              s \in SeqsUpTo(1..MaxRemaining, MaxMatchLen)}

InitOrder ==
    /\ now = StartOfDay
    /\ wallets = InitWallets(NairaWallets)
    /\ admin_wallets = InitAdminWallets
    /\ funding = <<>>
    /\ withdrawal = <<>>
    /\ pairs = <<>>
    /\ cycles = InitCycles
    /\ miss_applied = <<>>
    /\ admin_calls = 0
    /\ workers = NoWorkers
    /\ sessions = <<>>
    /\ mf \in QueryResults
    /\ mw \in QueryResults
    /\ mout = NULL

NextOrder == CallSmartMatch

SpecOrder == InitOrder /\ [][NextOrder]_vars

\* the position of request id in a query result
RowOf(rows, id) == CHOOSE i \in DOMAIN rows : rows[i][1] = id

\* request x is due before request y: smaller amount_remaining, or the same
\* amount_remaining and the earlier arrival
DueBefore(rows, x, y) ==
    LET rx == rows[RowOf(rows, x)][2]
        ry == rows[RowOf(rows, y)][2]
    IN rx < ry \/ (rx = ry /\ x < y)

\* the requests of column k that the triples mention
Matched(matches, k) == {matches[i][k] : i \in DOMAIN matches}

\* C25: the triples smart_match_requests emits take the funders, and the
\* withdrawers, in ascending order of amount_remaining, and requests with the
\* same amount_remaining in arrival order; a request left without a triple is
\* due after every request that has one.
C25_AscendingThenArrivalOrder ==
    \A matches \in mout :
        /\ \A a, b \in DOMAIN matches :
              a < b =>
                  /\ matches[a][1] # matches[b][1] =>
                         DueBefore(mf, matches[a][1], matches[b][1])
                  /\ matches[a][2] # matches[b][2] =>
                         DueBefore(mw, matches[a][2], matches[b][2])
        /\ \A x \in Matched(matches, 1), y \in Range(mf) :
              y[1] \notin Matched(matches, 1) => DueBefore(mf, x, y[1])
        /\ \A x \in Matched(matches, 2), y \in Range(mw) :
              y[1] \notin Matched(matches, 2) => DueBefore(mw, x, y[1])

----------------------------------------------------------------------------
\* The create endpoints as whole handlers, rejections included (main.py)

\* amounts and currency strings a client may send
RequestAmounts ==
    {MIN_AMOUNT - 1, MIN_AMOUNT, (InitBalanceUnits + 1) * MIN_AMOUNT, MAX_AMOUNT + 1}
RequestCurrencies == {"NAIRA", "usdt", "EUR"}

\* currency.upper()
Upper(currency) ==
    IF currency = "usdt" THEN "USDT" ELSE IF currency = "naira" THEN "NAIRA" ELSE currency

\* db.query(Wallet).filter(user_id, currency): the ids of the matching rows
WalletsOf(user_id, currency) ==
    {w \in DOMAIN wallets : WalletUser(w) = user_id /\ WalletCurrency(w) = currency}

\* the first check of the handler that raises, in the handler's order;
\* "none" when the request is created
CreateError(user_id, currency, amount, check_balance) ==
    IF amount < MIN_AMOUNT \/ amount > MAX_AMOUNT THEN "amount"
    ELSE IF Upper(currency) \notin Range(Currencies) THEN "currency"
    ELSE IF has_pending_request(user_id) THEN "pending"
    ELSE IF WalletsOf(user_id, Upper(currency)) = {} THEN "wallet"
    ELSE LET wallet == wallets[CHOOSE w \in WalletsOf(user_id, Upper(currency)) : TRUE]
         IN IF wallet.is_blocked THEN "blocked"
            ELSE IF ~wallet.has_payout THEN "payout"
            ELSE IF check_balance /\ wallet.balance < amount THEN "balance"
            ELSE "none"

\* what the client is answered
Response(endpoint, error) == [endpoint |-> endpoint, error |-> error]

CreateFrame == UNCHANGED <<now, wallets, admin_wallets, pairs, cycles, miss_applied,
                           admin_calls, workers, sessions, mf, mw>>

\* POST /funding/request
post_funding_request(user_id, currency, amount) ==
    LET error == CreateError(user_id, currency, amount, FALSE)
        wallet_id == CHOOSE w \in WalletsOf(user_id, Upper(currency)) : TRUE
    IN /\ Len(funding) < MaxFunding
       /\ funding' = IF error = "none"
                     THEN Append(funding, NewRequest(wallet_id, amount, now))
                     ELSE funding
       /\ mout' = At(Response("funding", error))
       /\ UNCHANGED withdrawal
       /\ CreateFrame

\* a withdrawal handler that inserts the row before it checks the balance
post_withdrawal_request_InsertFirst(user_id, currency, amount) ==
    LET error == CreateError(user_id, currency, amount, TRUE)
        wallet_id == CHOOSE w \in WalletsOf(user_id, Upper(currency)) : TRUE
    IN /\ Len(withdrawal) < MaxWithdrawal
       /\ withdrawal' = IF error \in {"none", "balance"}
                        THEN Append(withdrawal, NewRequest(wallet_id, amount, now))
                        ELSE withdrawal
       /\ mout' = At(Response("withdrawal", error))
       /\ UNCHANGED funding
       /\ CreateFrame

\* POST /withdrawal/request
post_withdrawal_request(user_id, currency, amount) ==
    LET error == CreateError(user_id, currency, amount, TRUE)
        wallet_id == CHOOSE w \in WalletsOf(user_id, Upper(currency)) : TRUE
    IN /\ Len(withdrawal) < MaxWithdrawal
       /\ withdrawal' = IF error = "none"
                        THEN Append(withdrawal, NewRequest(wallet_id, amount, now))
                        ELSE withdrawal
       /\ mout' = At(Response("withdrawal", error))
       /\ UNCHANGED funding
       /\ CreateFrame

\* The wallets the users hold when they start to send requests: any one of
\* them may be blocked, and any one may lack its bank account or wallet address
InitCreate ==
    /\ InitCommon
    /\ now = StartOfDay
    /\ cycles = InitCycles
    /\ \E blocked \in SUBSET WalletIds, bare \in SUBSET WalletIds :
          /\ Cardinality(blocked) <= 1
          /\ Cardinality(bare) <= 1
          /\ wallets = [w \in WalletIds |->
                [InitWallets(WalletIds)[w] EXCEPT !.is_blocked = w \in blocked,
                                                  !.has_payout = w \notin bare]]

NextCreate ==
    \/ \E u \in Users, c \in RequestCurrencies, a \in RequestAmounts :
          post_funding_request(u, c, a)
    \/ \E u \in Users, c \in RequestCurrencies, a \in RequestAmounts :
          post_withdrawal_request(u, c, a)

SpecCreate == InitCreate /\ [][NextCreate]_vars

\* C29: a create call with an amount below 1,000 or above 10,000,000, a
\* currency other than NAIRA/USDT, a wallet without bank account or wallet
\* address, a blocked wallet or (withdrawal) an amount above the wallet balance
\* is answered with an error and changes no table.
C29_InvalidCreateChangesNothing ==
    [][\A u \in Users, c \in RequestCurrencies, a \in RequestAmounts :
          LET owned == {w \in WalletIds :
                            WalletUser(w) = u /\ WalletCurrency(w) = Upper(c)}
              invalid(with_balance) ==
                  \/ a < 1000
                  \/ a > 10000000
                  \/ Upper(c) \notin {"NAIRA", "USDT"}
                  \/ \E w \in owned : wallets[w].is_blocked
                  \/ \E w \in owned : ~wallets[w].has_payout
                  \/ with_balance /\ \E w \in owned : a > wallets[w].balance
              rejected == /\ \E r \in mout' : r.error # "none"
                          /\ funding' = funding
                          /\ withdrawal' = withdrawal
                          /\ wallets' = wallets
                          /\ pairs' = pairs
          IN /\ (post_funding_request(u, c, a) /\ invalid(FALSE)) => rejected
             /\ (post_withdrawal_request(u, c, a) /\ invalid(TRUE)) => rejected]_vars

\* a withdrawal call for more than the balance has been answered with the
\* balance error while no withdrawal request exists
C29_Witness ==
    /\ mout = At(Response("withdrawal", "balance"))
    /\ withdrawal = <<>>

----------------------------------------------------------------------------
\* Create calls handled by several server processes at once: each handler
\* runs its checks on what is committed, and inserts at its db.commit()

\* the checks of a create handler, up to "Create funding request" /
\* "Create withdrawal request"
ReadCreate(endpoint, user_id, wallet_id, amount) ==
    /\ CreateAccepted(user_id, wallet_id, amount)
    /\ endpoint = "withdrawal" => wallets[wallet_id].balance >= amount
    /\ Len(sessions) < MaxSessions
    /\ sessions' = Append(sessions,
          [op |-> endpoint, id |-> wallet_id, amount |-> amount, admin_wallet |-> <<>>,
           funder |-> <<>>, withdrawer |-> <<>>, done |-> FALSE])
    /\ UNCHANGED <<wallets, admin_wallets, funding, withdrawal, pairs>>
    /\ Settled

\* db.add(request), db.commit()
CommitCreate(k) ==
    LET s == sessions[k]
    IN /\ s.op \in {"funding", "withdrawal"}
       /\ ~s.done
       /\ IF s.op = "funding"
          THEN /\ funding' = Append(funding, NewRequest(s.id, s.amount, now))
               /\ UNCHANGED withdrawal
          ELSE /\ withdrawal' = Append(withdrawal, NewRequest(s.id, s.amount, now))
               /\ UNCHANGED funding
       /\ sessions' = [sessions EXCEPT ![k].done = TRUE]
       /\ UNCHANGED <<wallets, admin_wallets, pairs>>
       /\ Settled

NextCreateRace ==
    \/ \E e \in {"funding", "withdrawal"}, u \in Users, w \in WalletIds, a \in Amounts :
          ReadCreate(e, u, w, a)
    \/ \E k \in DOMAIN sessions : CommitCreate(k)

SpecCreateRace == InitLedger /\ [][NextCreateRace]_vars

\* C30: a user never has more than one request that is not completed, funding
\* and withdrawal requests of both currencies counted together.
C30_OnePendingRequestPerUser ==
    \A u \in Users :
        Cardinality({f \in DOMAIN funding :
                        /\ WalletUser(funding[f].wallet_id) = u
                        /\ ~funding[f].is_completed
                        /\ ~funding[f].deleted})
          + Cardinality({w \in DOMAIN withdrawal :
                            /\ WalletUser(withdrawal[w].wallet_id) = u
                            /\ ~withdrawal[w].is_completed
                            /\ ~withdrawal[w].deleted}) <= 1

----------------------------------------------------------------------------
\* Users creating and cancelling funding requests between two merge instants

NextRoundTrip ==
    \/ \E u \in Users, w \in WalletIds, a \in Amounts : create_funding_request(u, w, a)
    \/ \E f \in DOMAIN funding, u \in Users : cancel_funding_request(f, u)
    \/ Advance

SpecRoundTrip == InitLedger /\ [][NextRoundTrip]_vars

\* C31: creating a funding request adds that one row and nothing else, and
\* cancelling it before the cutoff removes the row again: no pair references
\* it, no other request, no pair and no wallet has changed, and its owner has
\* no pending request any more, so may create a new one.
C31_CreateThenCancelRestores ==
    [][\A f \in DOMAIN funding' :
          /\ f \notin DOMAIN funding =>
                /\ \A g \in DOMAIN funding : funding'[g] = funding[g]
                /\ withdrawal' = withdrawal
                /\ pairs' = pairs
                /\ wallets' = wallets
                /\ admin_wallets' = admin_wallets
          /\ (f \in DOMAIN funding /\ RowExists(funding, f)
                 /\ \E u \in Users : cancel_funding_request(f, u)) =>
                /\ ~RowExists(funding', f)
                /\ \A g \in DOMAIN funding \ {f} : funding'[g] = funding[g]
                /\ withdrawal' = withdrawal
                /\ pairs' = pairs
                /\ wallets' = wallets
                /\ admin_wallets' = admin_wallets
                /\ ~FundingReferenced(f)
                /\ ~(has_pending_request(WalletUser(funding[f].wallet_id)))']_vars

\* a cancelled funding request whose owner has created a new request since
C31_Witness ==
    \E f \in DOMAIN funding, g \in DOMAIN funding :
        /\ funding[f].deleted
        /\ f < g
        /\ ~funding[g].deleted
        /\ funding[g].wallet_id = funding[f].wallet_id
        /\ pairs = <<>>
        /\ wallets = InitWallets(WalletIds)

----------------------------------------------------------------------------
\* get_next_merge_time (merge_scheduler.py).  Local time is Africa/Lagos,
\* UTC+1 all year; instants are minutes since the UTC midnight of the start.

\* the latest instant at which the function is called
MaxNowMinutes == 2880

Day == 24 * Hour
WAT_OFFSET == 60
JOIN_WINDOW_MINUTES == 5

\* MERGE_TIMES as minutes of the local day
MERGE_TIMES == <<9 * Hour, 15 * Hour, 21 * Hour>>

\* datetime.now(WAT) for the UTC instant t, and astimezone(pytz.utc) back
ToWAT(t) == t + WAT_OFFSET
ToUTC(t) == t - WAT_OFFSET

\* a loop that also takes a merge time equal to now
TodaysMerge_NotStrict(now_wat, today_wat, i) ==
    LET hits == {k \in DOMAIN MERGE_TIMES :
                    k >= i /\ today_wat * Day + MERGE_TIMES[k] >= now_wat}
    IN IF hits = {} THEN NULL
       ELSE At(today_wat * Day + MERGE_TIMES[CHOOSE k \in hits : \A j \in hits : k <= j])

\* "Check today's remaining merge times": the first merge_datetime_wat > now_wat
\* of the loop from index i on, NULL when the loop ends without a return
TodaysMerge(now_wat, today_wat, i) ==
    LET hits == {k \in DOMAIN MERGE_TIMES :
                    k >= i /\ today_wat * Day + MERGE_TIMES[k] > now_wat}
    IN IF hits = {} THEN NULL
       ELSE At(today_wat * Day + MERGE_TIMES[CHOOSE k \in hits : \A j \in hits : k <= j])

\* <<merge_datetime_utc, join_window_closes_utc>>
get_next_merge_time(t) ==
    LET now_wat == ToWAT(t)
        today_wat == now_wat \div Day
        today == TodaysMerge(now_wat, today_wat, 1)
        merge_datetime_wat ==
            IF today # NULL THEN CHOOSE m \in today : TRUE
            ELSE (today_wat + 1) * Day + MERGE_TIMES[1]
    IN <<ToUTC(merge_datetime_wat), ToUTC(merge_datetime_wat + JOIN_WINDOW_MINUTES)>>

InitNextMerge ==
    /\ InitCommon
    /\ now \in 0..MaxNowMinutes
    /\ wallets = InitWallets(WalletIds)
    /\ cycles = InitCycles

CallNextMergeTime ==
    /\ mout = NULL
    /\ mout' = At(get_next_merge_time(now))
    /\ UNCHANGED <<now, wallets, admin_wallets, funding, withdrawal, pairs, cycles,
                   miss_applied, admin_calls, workers, sessions, mf, mw>>

NextNextMerge == CallNextMergeTime

SpecNextMerge == InitNextMerge /\ [][NextNextMerge]_vars

\* C32: get_next_merge_time returns the earliest of the daily 09:00, 15:00 and
\* 21:00 local-time instants that is strictly later than now, and a join-window
\* close exactly 5 minutes after it.
C32_NextMergeIsEarliestLater ==
    \A r \in mout :
        LET local == {d * 1440 + h * 60 : d \in 0..3, h \in {9, 15, 21}}
            instants == {m - 60 : m \in local}
        IN /\ r[1] \in instants
           /\ r[1] > now
           /\ \A m \in instants : m > now => r[1] <= m
           /\ r[2] = r[1] + 5

\* called at 21:00 local time exactly, the answer is the next day's 09:00
C32_Witness ==
    /\ now = 20 * 60
    /\ mout = At(<<1440 + 8 * 60, 1440 + 8 * 60 + 5>>)

----------------------------------------------------------------------------
\* The rows of merge_cycles, by the three places that insert them.

\* the clock of this section runs from midnight UTC for this many hours
MaxCycleHours == 9
\* run_matching calls that are followed
MaxManualCycles == 1

\* "for day_offset in range(7)"
DAYS_AHEAD == 7
\* init_merge_cycles: "cutoff_time = scheduled_time - timedelta(hours=1)"
INIT_CUTOFF_MINUTES == 60

\* the loop "for day_offset in range(7): for hour in merge_times", as the
\* scheduled_time of each iteration; offset is the UTC offset of the hours used
CycleSlots(today, offset) ==
    [i \in 1..(DAYS_AHEAD * Len(MERGE_TIMES)) |->
        (today + (i - 1) \div Len(MERGE_TIMES)) * Day
            + MERGE_TIMES[((i - 1) % Len(MERGE_TIMES)) + 1] - offset]

\* the body of the loop from slot i on: skip a slot in the past, skip a slot
\* that has a row, else add a pending row with cutoff_time = scheduled_time - cutoff
RECURSIVE AddCycles(_, _, _, _, _)
AddCycles(cs, slots, i, cutoff, t) ==
    IF i > Len(slots) THEN cs
    ELSE IF slots[i] < t \/ \E k \in DOMAIN cycles : cycles[k].scheduled_time = slots[i]
         THEN AddCycles(cs, slots, i + 1, cutoff, t)
         ELSE AddCycles(Append(cs, [NewCycle(slots[i]) EXCEPT
                                       !.cutoff_time = slots[i] - cutoff]),
                        slots, i + 1, cutoff, t)

CycleFrame ==
    /\ NoAdminCall
    /\ UNCHANGED <<now, wallets, admin_wallets, funding, withdrawal, pairs, miss_applied>>
    /\ Unrelated

\* the Celery beat task, "crontab(hour=0, minute=0)": hours in WAT, stored in UTC
create_daily_merge_cycles ==
    /\ now % Day = 0
    /\ cycles' = AddCycles(cycles, CycleSlots(ToWAT(now) \div Day, WAT_OFFSET), 1,
                           CUTOFF_MINUTES, now)
    /\ CycleFrame

\* init_batch_matching.py, run by hand: the hours are taken as UTC
init_merge_cycles ==
    /\ cycles' = AddCycles(cycles, CycleSlots(now \div Day, 0), 1, INIT_CUTOFF_MINUTES, now)
    /\ CycleFrame

\* the row run_matching inserts for itself and completes at its commit; the
\* counters add up the currencies whose two lists are both non-empty
ManualCycle(db, t) ==
    LET both == {c \in Range(Currencies) :
                    /\ SelectRows(funding, c, NULL, 1) # <<>>
                    /\ SelectRows(withdrawal, c, NULL, 1) # <<>>}
        total(table) == Cardinality({i \in DOMAIN table :
                            \E c \in both : \E k \in DOMAIN SelectRows(table, c, NULL, 1) :
                                SelectRows(table, c, NULL, 1)[k][1] = i})
    IN [NewCycle(t) EXCEPT !.cutoff_time = t,
                           !.status = "completed",
                           !.total_funding_requests = total(funding),
                           !.total_withdrawal_requests = total(withdrawal),
                           !.matched_pairs = Len(db.pairs) - Len(pairs)]

\* run_matching (auto_matcher.py) with its merge_cycles row
RunMatchingCycle ==
    LET db == MatchAllAuto([funding |-> funding, withdrawal |-> withdrawal,
                            pairs |-> pairs], 1, now)
    IN /\ Len(db.pairs) <= MaxPairs
       /\ Cardinality({k \in DOMAIN cycles : cycles[k].status = "completed"}) < MaxManualCycles
       /\ funding' = db.funding
       /\ withdrawal' = db.withdrawal
       /\ pairs' = db.pairs
       /\ miss_applied' = Extend(miss_applied, Len(db.pairs))
       /\ cycles' = Append(cycles, ManualCycle(db, now))
       /\ UNCHANGED <<now, wallets, admin_wallets>>
       /\ Unrelated

CycleTick ==
    /\ now + Hour <= MaxCycleHours * Hour
    /\ now' = now + Hour
    /\ NoAdminCall
    /\ UNCHANGED <<wallets, admin_wallets, funding, withdrawal, pairs, cycles, miss_applied>>
    /\ Unrelated

\* a new installation at midnight UTC, with the requests of the first users
InitCycleRows ==
    /\ now = 0
    /\ wallets = InitWallets(NairaWallets)
    /\ admin_wallets = InitAdminWallets
    /\ cycles = <<>>
    /\ \E pop \in Populations :
          /\ funding = [i \in 1..Len(pop.f) |-> NewRequest(i, pop.f[i], 0)]
          /\ withdrawal = [j \in 1..Len(pop.w) |->
                              NewRequest(Len(pop.f) + j, pop.w[j], 0)]
    /\ pairs = <<>>
    /\ miss_applied = <<>>
    /\ admin_calls = 0
    /\ workers = NoWorkers
    /\ sessions = <<>>
    /\ mf = <<>>
    /\ mw = <<>>
    /\ mout = NULL

NextCycleRows ==
    \/ create_daily_merge_cycles
    \/ init_merge_cycles
    \/ (IsMergeTime(now % Day) /\ RunMatchingCycle /\ NoAdminCall)
    \/ (\E admin \in Admins : RunMatchingCycle /\ AdminCall)
    \/ CycleTick

SpecCycleRows == InitCycleRows /\ [][NextCycleRows]_vars

\* C33: every MergeCycle row has cutoff_time exactly 10 minutes before its
\* scheduled_time, and a scheduled_time that is one of the three daily merge
\* instants (09:00, 15:00, 21:00 local time), whichever code path created it.
C33_CycleCutoffAndInstant ==
    \A k \in DOMAIN cycles :
        /\ cycles[k].cutoff_time = cycles[k].scheduled_time - 10
        /\ (cycles[k].scheduled_time + 60) % 1440 \in {9 * 60, 15 * 60, 21 * 60}

----------------------------------------------------------------------------
\* A deadline sweep that fails part-way (celery_batch_matching.py 389-455).

\* An exception raised while the loop is at pair k (a query of the loop body
\* failing in the database): control leaves the one try block, "except
\* Exception: db.rollback()" discards every change of the sweep, and only the
\* printed error, kept in mout, remains.
check_expired_deadlines_error(k) ==
    /\ k \in DOMAIN pairs
    /\ ExpiredProof(pairs[k], now) \/ ExpiredConfirmation(pairs[k], now)
    /\ mout' = At(<<"Error checking deadlines", k, now>>)
    /\ mout' # mout
    /\ NoAdminCall
    /\ UNCHANGED <<now, wallets, admin_wallets, funding, withdrawal, pairs, cycles,
                   miss_applied, workers, sessions, mf, mw>>

NextSweep ==
    \/ run_matching
    \/ \E p \in DOMAIN pairs, u \in Users : upload_proof(p, u)
    \/ check_expired_deadlines
    \/ \E k \in DOMAIN pairs : check_expired_deadlines_error(k)
    \/ SettleTick

SpecSweep == Init /\ [][NextSweep]_vars

\* the wallet the sweep blocks for a pair of its first query and of its second
FunderWallet(p) == funding[pairs[p].funding_request_id].wallet_id
WithdrawerWallet(p) == withdrawal[pairs[p].withdrawal_request_id].wallet_id

\* C34: within one deadline sweep, a failure while processing one expired pair
\* does not keep the other expired pairs found by the same sweep from being
\* flagged and their responsible wallets from being blocked; and a pair's flag
\* and its wallet block are persisted together or not at all.
C34_SweepFailureIsolated ==
    [][/\ \A k \in DOMAIN pairs :
            check_expired_deadlines_error(k) =>
                \A p \in DOMAIN pairs \ {k} :
                    /\ ExpiredProof(pairs[p], now) =>
                          /\ pairs'[p].funder_missed_deadline
                          /\ wallets'[FunderWallet(p)].is_blocked
                    /\ ExpiredConfirmation(pairs[p], now) =>
                          /\ pairs'[p].withdrawer_missed_deadline
                          /\ wallets'[WithdrawerWallet(p)].is_blocked
       /\ \A p \in DOMAIN pairs :
            /\ ExpiredProof(pairs[p], now) =>
                  (pairs'[p].funder_missed_deadline
                      => wallets'[FunderWallet(p)].is_blocked)
            /\ ExpiredConfirmation(pairs[p], now) =>
                  (pairs'[p].withdrawer_missed_deadline
                      => wallets'[WithdrawerWallet(p)].is_blocked)
      ]_vars

----------------------------------------------------------------------------
\* The length of the list smart_match_requests returns (SpecMatch)

----------------------------------------------------------------------------
\* Completion and over-matching of requests (Spec)

\* C36: a request is marked is_completed only when its whole amount has been
\* settled: is_completed implies amount_remaining = 0, so a partially matched
\* request whose pairs are all confirmed is not completed while part of its
\* amount is unmatched.
C36_CompletedHasNothingRemaining ==
    /\ \A f \in DOMAIN funding :
          (~funding[f].deleted /\ funding[f].is_completed) => funding[f].amount_remaining = 0
    /\ \A w \in DOMAIN withdrawal :
          (~withdrawal[w].deleted /\ withdrawal[w].is_completed)
              => withdrawal[w].amount_remaining = 0

\* C37: no request is over-matched: for every withdrawal request the amounts of
\* its pairs not flagged funder_missed_deadline sum to at most the request's
\* amount, and for every funding request the amounts of all its pairs sum to at
\* most its amount.
C37_NeverOverMatched ==
    LET live == SelectSeq(pairs, LAMBDA p : ~p.funder_missed_deadline)
    IN /\ \A w \in DOMAIN withdrawal :
             PairTotal(live, "withdrawal_request_id", w) <= withdrawal[w].amount
       /\ \A f \in DOMAIN funding :
             PairTotal(pairs, "funding_request_id", f) <= funding[f].amount

----------------------------------------------------------------------------
\* Progress of settlement.  The clock and the one-minute sweep of Celery beat
\* run by themselves; uploads and confirmations are up to the users.

SettleFairness ==
    /\ WF_vars(SettleTick)
    /\ WF_vars(check_expired_deadlines)

SpecSettleLive == SpecSettle /\ SettleFairness

\* withdrawal request w was re-queued for a pair whose funder uploaded no proof
\* in time, has been matched again since, and every pair created after the
\* failed one is confirmed
RematchedAndConfirmed(w) ==
    \E p \in DOMAIN pairs :
        /\ withdrawal[w].failed_match_count > 0
        /\ pairs[p].withdrawal_request_id = w
        /\ pairs[p].funder_missed_deadline
        /\ ~pairs[p].proof_uploaded
        /\ \E q \in DOMAIN pairs : q > p /\ pairs[q].withdrawal_request_id = w
        /\ \A q \in DOMAIN pairs :
              (q > p /\ pairs[q].withdrawal_request_id = w) => pairs[q].proof_confirmed

\* C38: a withdrawal request re-queued after its funder missed the proof
\* deadline can still complete: once it has been re-matched and every pair that
\* replaced the failed one is confirmed, it eventually becomes is_completed.
C38_RequeuedWithdrawalCompletes ==
    \A w \in 1..MaxWithdrawal :
        (w \in DOMAIN withdrawal /\ RematchedAndConfirmed(w))
            ~> (w \in DOMAIN withdrawal /\ withdrawal[w].is_completed)

\* Settlement with pairs made by the scheduled job and by an administrator
NextManual ==
    \/ run_matching
    \/ \E f \in DOMAIN funding, w \in DOMAIN withdrawal, a \in ManualAmounts :
          manual_match_requests("admin", f, w, a)
    \/ \E p \in DOMAIN pairs, u \in Users : upload_proof(p, u)
    \/ \E p \in DOMAIN pairs, u \in Users : confirm_proof(p, u)
    \/ check_expired_deadlines
    \/ SettleTick

SpecManualLive == Init /\ [][NextManual]_vars /\ SettleFairness

\* the last instant of the clock
SettleEnd == StartOfDay + MaxSettleHours * Hour

\* C39: with time advancing and the deadline sweep running, no pair stays
\* awaiting proof for ever and no pair stays awaiting confirmation for ever,
\* the pairs of an admin manual match included: every pair ends confirmed or
\* with funder_missed_deadline or withdrawer_missed_deadline.  Stated for the
\* pairs whose deadlines, where they have one, fall inside the hours followed.
C39_EveryPairIsSettledOrFlagged ==
    \A p \in 1..MaxPairs :
        /\ (/\ p \in DOMAIN pairs
            /\ ~pairs[p].proof_uploaded
            /\ \A d \in pairs[p].proof_deadline : d <= SettleEnd)
              ~> (/\ p \in DOMAIN pairs
                  /\ pairs[p].proof_uploaded \/ pairs[p].funder_missed_deadline)
        /\ (/\ p \in DOMAIN pairs
            /\ pairs[p].proof_uploaded
            /\ \A d \in pairs[p].confirmation_deadline : d <= SettleEnd)
              ~> (/\ p \in DOMAIN pairs
                  /\ \/ pairs[p].proof_confirmed
                     \/ pairs[p].funder_missed_deadline
                     \/ pairs[p].withdrawer_missed_deadline)

----------------------------------------------------------------------------
\* Debits of a withdrawer's wallet (Spec)

\* C40: no user wallet balance becomes negative through confirm_proof or the
\* admin-wallet withdrawal match, and the confirmed pairs of one withdrawal
\* request, which are what was debited for it, sum to at most its amount.
C40_NoNegativeBalance ==
    LET confirmed == SelectSeq(pairs, LAMBDA p : p.proof_confirmed)
    IN /\ \A w \in DOMAIN wallets : wallets[w].balance >= 0
       /\ \A r \in DOMAIN withdrawal :
             PairTotal(confirmed, "withdrawal_request_id", r) <= withdrawal[r].amount

====
